---- MODULE Spec2Model ----
\* Backup orchestration of blobber: the command-line backup run (cmd/backup.go),
\* the coordinator and per-database pipeline (internal/orchestrator/backup.go),
\* the backup flow of the terminal UI (internal/tui/tui.go), the retention
\* engine they call, and the storage and dump collaborators.
EXTENDS Integers, Sequences, FiniteSets, TLC

\* ---------------------------------------------------------------- bounds
\* Number of databases in the configuration.
NumDBs == 2
\* Capacity of the buffered progress channel in the model.  The program
\* allocates 100 slots (cmd/backup.go:89); the model keeps it below the number
\* of events of one run so that producers do block on a full channel.
ChanCap == 2
\* Largest number of backups of one database already at the destination.
MaxOld == 2
\* Largest number of names on the command line.
MaxArgs == 1
\* Largest number of files in a listing handed to the retention engine.
MaxFiles == 3
\* Largest number of bytes in a source file or a dump.
MaxBytes == 3

\* Times the confirmation of a restore is submitted in the TUI.
MaxPresses == 2

\* ---------------------------------------------------------------- configuration
\* Database names of the configuration (keys of Config.Databases).
NameList == <<"mydb", "other", "app">>

DBNames == {NameList[i] : i \in 1..NumDBs}

\* A name that is not a key of Config.Databases.
UnknownName == "ghost"

\* Config.Databases[name].Retention of the modelled configuration.
Retention(name) ==
    IF name = "mydb"
    THEN [KeepLast |-> 1, KeepDays |-> 0, MaxSizeMB |-> 0]
    ELSE [KeepLast |-> 0, KeepDays |-> 0, MaxSizeMB |-> 0]

\* (disabled rule set: all three zero)
HasRetention(name) ==
    \/ Retention(name).KeepLast > 0
    \/ Retention(name).KeepDays > 0
    \/ Retention(name).MaxSizeMB > 0

\* time.Now() of the run, in days; backup.Run stamps the artifact with it.
Now == 11

\* Size of the artifact a dump produces, in the units of RemoteFile.Size.
ArtifactSize == 2

\* Config.Databases[name] as backup.Run reads it: every database of the
\* modelled configuration is a MySQL database dumped without compression.
Database(name) == [Type |-> "mysql", Path |-> <<>>, Compression |-> "none"]

\* sort.Strings(databases): the configured names in byte order.
SortedNames ==
    LET order == <<"app", "mydb", "other">>
        keep(n) == n \in DBNames
    IN  SelectSeq(order, keep)

\* ---------------------------------------------------------------- file names
\* A file name is a sequence of tokens: strings are cut at the characters the
\* naming convention looks at ("_", ".", "/") and a run of fifteen characters
\* of the shape \d{8}_\d{6} is one token.

\* time.Format("20060102_150405") of the days of the model, by day number.
StampOf ==
    <<"20240101_000000", "20240102_000000", "20240103_000000", "20240104_000000",
      "20240105_000000", "20240106_000000", "20240107_000000", "20240108_000000",
      "20240109_000000", "20240110_000000", "20240111_000000">>

Format(day) == StampOf[day]

\* Fifteen characters of the shape \d{8}_\d{6} that time.Parse rejects.
BadStamp == "20241301_000000"

\* Matches \d{8}_\d{6}.
IsStampShaped(tok) == tok = BadStamp \/ \E d \in 1..Len(StampOf) : StampOf[d] = tok

\* time.Parse("20060102_150405", tok): the day, or 0 for an error.
ParseTime(tok) ==
    IF \E d \in 1..Len(StampOf) : StampOf[d] = tok
    THEN CHOOSE d \in 1..Len(StampOf) : StampOf[d] = tok
    ELSE 0

\* The characters of a database name, as tokens.
Chars(name) ==
    IF name = "my_db" THEN <<"my", "_", "db">>
    ELSE IF name = "My_DB" THEN <<"My", "_", "DB">>
    ELSE <<name>>

\* The string a token sequence spells.
RECURSIVE Join(_)
Join(toks) == IF toks = <<>> THEN "" ELSE Head(toks) \o Join(Tail(toks))

\* A mutant of compressionExt: the zstd artifact is named after the codec,
\* ".zstd", an extension newDecompressReader does not know.
compressionExtByName(compression) ==
    IF compression \in {"gz", "zstd", "xz", "zip"} THEN <<".", compression>> ELSE <<>>

\* compressionExt (backup package).
compressionExt(compression) ==
    IF compression = "gz" THEN <<".", "gz">>
    ELSE IF compression = "zstd" THEN <<".", "zst">>
    ELSE IF compression = "xz" THEN <<".", "xz">>
    ELSE IF compression = "zip" THEN <<".", "zip">>
    ELSE <<>>

\* filepath.Ext: the suffix of the last path element that starts at its last
\* ".", empty when that element has none.
Ext(path) ==
    LET dots == {i \in 1..Len(path) :
                    /\ path[i] = "."
                    /\ \A j \in i..Len(path) : path[j] # "/"}
    IN  IF dots = {} THEN <<>>
        ELSE LET last == CHOOSE i \in dots : \A j \in dots : j <= i
             IN  SubSeq(path, last, Len(path))

\* The extension backup.Run gives the artifact of a database.
Extension(db) ==
    LET ext == IF db.Type = "file"
               THEN IF Ext(db.Path) = <<>> THEN <<".", "bak">> ELSE Ext(db.Path)
               ELSE <<".", "sql">>
    IN  ext \o compressionExt(db.Compression)

\* fmt.Sprintf("%s_%s%s", name, timestamp, ext)
FileName(name, timestamp, ext) == Chars(name) \o <<"_", timestamp>> \o ext

\* filepath.Base: what follows the last "/".
Base(filename) ==
    LET slashes == {i \in 1..Len(filename) : filename[i] = "/"}
    IN  IF slashes = {} THEN filename
        ELSE LET last == CHOOSE i \in slashes : \A j \in slashes : j <= i
             IN  SubSeq(filename, last + 1, Len(filename))

\* parseFilename: the regular expression ^(.+)_(\d{8}_\d{6})\.(.+)$ on the base
\* name, its first group greedy (the last place that matches), then
\* time.Parse of the second group.
parseFilename(filename) ==
    LET base == Base(filename)
        places == {i \in 2..(Len(base) - 3) :
                     /\ base[i] = "_"
                     /\ IsStampShaped(base[i + 1])
                     /\ base[i + 2] = "."}
        noMatch == [ok |-> FALSE, name |-> "", timestamp |-> 0]
    IN  IF places = {} THEN noMatch
        ELSE LET at == CHOOSE i \in places : \A j \in places : j <= i
                 ts == ParseTime(base[at + 1])
             IN  IF ts = 0 THEN noMatch
                 ELSE [ok |-> TRUE, name |-> Join(SubSeq(base, 1, at - 1)), timestamp |-> ts]

\* ---------------------------------------------------------------- retention engine
\* Units of RemoteFile.Size per megabyte (1024*1024 bytes in the program).
MB == 2

\* strings.ToLower over the names of the model.
ToLower(name) ==
    IF name = "MyDB" THEN "mydb"
    ELSE IF name = "My_DB" THEN "my_db"
    ELSE name

\* Names compared byte for byte.
EqualExactly(a, b) == a = b

EqualFold(a, b) == ToLower(a) = ToLower(b)

\* A remote file is a RemoteFile [Name, Size, ModTime]; a backupFile adds the
\* Timestamp parsed from the name.
\* sort.Slice by Timestamp, newest first: for the short lists of the model the
\* library runs an insertion sort, which leaves equal timestamps in the order
\* they came in.
RECURSIVE SortNewestFirst(_)
SortNewestFirst(files) ==
    IF files = <<>> THEN <<>>
    ELSE LET n == Len(files)
             f == files[n]
             sorted == SortNewestFirst(SubSeq(files, 1, n - 1))
             k == Cardinality({i \in 1..Len(sorted) : sorted[i].Timestamp >= f.Timestamp})
         IN  SubSeq(sorted, 1, k) \o <<f>> \o SubSeq(sorted, k + 1, Len(sorted))

\* filterByName without the test of the database name: every file whose name
\* parses is kept.
filterByNameAnyDatabase(files, dbName) ==
    LET keep(f) == parseFilename(f.Name).ok
        asBackupFile(f) == [Name |-> f.Name, Size |-> f.Size, ModTime |-> f.ModTime,
                            Timestamp |-> parseFilename(f.Name).timestamp]
        matching == SelectSeq(files, keep)
    IN  SortNewestFirst([i \in 1..Len(matching) |-> asBackupFile(matching[i])])

filterByName(files, dbName) ==
    LET keep(f) == LET p == parseFilename(f.Name)
                   IN  p.ok /\ EqualFold(p.name, dbName)
        asBackupFile(f) == [Name |-> f.Name, Size |-> f.Size, ModTime |-> f.ModTime,
                            Timestamp |-> parseFilename(f.Name).timestamp]
        matching == SelectSeq(files, keep)
    IN  SortNewestFirst([i \in 1..Len(matching) |-> asBackupFile(matching[i])])

\* backupFile.RemoteFile
RemoteFileOf(f) == [Name |-> f.Name, Size |-> f.Size, ModTime |-> f.ModTime]

applyKeepLast(files, keepLast) ==
    IF Len(files) <= keepLast THEN <<>>
    ELSE SubSeq(files, keepLast + 1, Len(files))

\* applyKeepDays with a file exactly at the cutoff counted as old.
applyKeepDaysInclusive(files, keepDays) ==
    LET cutoff == Now - keepDays
        old(f) == f.Timestamp <= cutoff
    IN  SelectSeq(files, old)

applyKeepDays(files, keepDays) ==
    LET cutoff == Now - keepDays
        old(f) == f.Timestamp < cutoff
    IN  SelectSeq(files, old)

RECURSIVE SumSize(_, _)
SumSize(files, n) == IF n = 0 THEN 0 ELSE files[n].Size + SumSize(files, n - 1)

\* Subsequence of q at the positions idx.
RECURSIVE At(_, _, _)
At(q, idx, n) ==
    IF n = 0 THEN <<>>
    ELSE IF n \in idx THEN Append(At(q, idx, n - 1), q[n])
    ELSE At(q, idx, n - 1)

\* applyMaxSize with a total exactly at the limit counted as over it.
applyMaxSizeAtLimit(files, maxSizeMB) ==
    LET maxBytes == maxSizeMB * MB
        idx == {i \in 1..Len(files) : SumSize(files, i) >= maxBytes}
    IN  At(files, idx, Len(files))

applyMaxSize(files, maxSizeMB) ==
    LET maxBytes == maxSizeMB * MB
        idx == {i \in 1..Len(files) : SumSize(files, i) > maxBytes}
    IN  At(files, idx, Len(files))

\* retention.Apply as the orchestrator calls it (four arguments): the first
\* enabled rule decides.
ApplyFirstRule(files, dbName, retention) ==
    LET filtered == filterByName(files, dbName)
        chosen == IF retention.KeepLast > 0 THEN applyKeepLast(filtered, retention.KeepLast)
                  ELSE IF retention.KeepDays > 0 THEN applyKeepDays(filtered, retention.KeepDays)
                  ELSE IF retention.MaxSizeMB > 0 THEN applyMaxSize(filtered, retention.MaxSizeMB)
                  ELSE <<>>
    IN  IF files = <<>> \/ filtered = <<>> THEN <<>>
        ELSE [i \in 1..Len(chosen) |-> RemoteFileOf(chosen[i])]

\* retention.Apply with the rules tried in turn, the first enabled one deciding
\* alone.
ApplySwitch(files, dbName, retention, pendingBackups) ==
    LET chosen == ApplyFirstRule(files, dbName, retention)
    IN  {chosen[i] : i \in 1..Len(chosen)}

\* KeepLast taken as configured, the pending backups not counted.
KeepLastUnadjusted(keepLast, pendingBackups) == keepLast

\* effectiveKeepLast of Apply: KeepLast less the backups about to be added,
\* never below zero.
effectiveKeepLast(keepLast, pendingBackups) ==
    IF keepLast - pendingBackups < 0 THEN 0 ELSE keepLast - pendingBackups

\* The orders in which a map of the files S can be iterated.
Orderings(S) ==
    {q \in [1..Cardinality(S) -> S] : \A f \in S : \E i \in 1..Cardinality(S) : q[i] = f}

\* retention.Apply with five arguments, as the TUI calls it: the files any
\* enabled rule marks, KeepLast lowered by the backups about to be added.  The
\* result is collected from a map: Apply returns it in one of Orderings.
Apply(files, dbName, retention, pendingBackups) ==
    LET filtered == filterByName(files, dbName)
        elems(q) == {RemoteFileOf(q[i]) : i \in 1..Len(q)}
        byKeepLast ==
            IF retention.KeepLast > 0
            THEN elems(applyKeepLast(filtered,
                                     effectiveKeepLast(retention.KeepLast, pendingBackups)))
            ELSE {}
        byKeepDays ==
            IF retention.KeepDays > 0 THEN elems(applyKeepDays(filtered, retention.KeepDays))
            ELSE {}
        byMaxSize ==
            IF retention.MaxSizeMB > 0 THEN elems(applyMaxSize(filtered, retention.MaxSizeMB))
            ELSE {}
    IN  IF files = <<>> \/ filtered = <<>> THEN {}
        ELSE byKeepLast \cup byKeepDays \cup byMaxSize

\* storage.List: the files of the destination sorted by ModTime, newest first
\* (files of equal ModTime in the order the backend reported them).
RECURSIVE List(_)
List(files) ==
    IF files = {} THEN <<>>
    ELSE LET f == CHOOSE x \in files : \A y \in files : y.ModTime <= x.ModTime
         IN  <<f>> \o List(files \ {f})

\* ---------------------------------------------------------------- progress events
NoError == "nil"

\* BackupProgress{DBName, Step, Message, Done, Error, Skipped}; n is the count
\* printed in the "Deleted %d old backup(s)" message, path the artifact path
\* printed in the dry-run upload message.
Event(db, step, msg, err, skipped, done) ==
    [DBName |-> db, Step |-> step, Message |-> msg, Error |-> err,
     Skipped |-> skipped, Done |-> done, n |-> 0, path |-> ""]

\* The temp path backup.Run returns for a database.
ArtifactPath(db) == "tmp/" \o db

\* The artifact a successful upload adds to the destination.
NewArtifact(db) ==
    [Name |-> FileName(db, Format(Now), Extension(Database(db))),
     Size |-> ArtifactSize, ModTime |-> Now]

\* ---------------------------------------------------------------- state
VARIABLES
    frontend,       \* "cli": blobber backup; "tui": the interactive program
    args,           \* database names given on the command line
    selected,       \* databases ticked in the TUI's backup selection
    dryRun,         \* --dry-run
    skipRetention,  \* --skip-retention
    mainPc,         \* position of runBackup; in the TUI, the view
    cmdErr,         \* error runBackup returned, m.err in the TUI (NoError: none)
    databases,      \* runBackup's database list after validation, m.backupQueue
    retentionPlan,  \* RetentionPlan: name -> files (<<>>: no entry)
    preLists,       \* storage.List calls made by PreCheckRetention
    remote,         \* files at the destination
    bgPc,           \* position of the goroutine that calls RunBackups
    pc,             \* position of each database's runSingleBackup goroutine; in
                    \* the TUI, the command or message in flight for the database
    progress,       \* buffered progress channel
    progressClosed, \* close(progress) has run
    doneClosed,     \* close(done) has run
    panicked,       \* a goroutine sent on the closed channel
    sent,           \* events each pipeline has sent, in order; in the TUI, the
                    \* step messages the database's commands have returned
    received,       \* events the reader loop has taken, per database, in order
    states,         \* runBackup's dbState per database, m.backupStates in the TUI
    results,        \* results[idx] of RunBackups, by name
    tmpExists,      \* the temp directory backup.Run created exists
    toDelete,       \* toDelete of the retention step, per database
    deleted,        \* deleted counter of the retention step, per database
    calls,          \* collaborator calls of each pipeline, in order, with outcome
    failed,         \* failed count of the final summary (-1: not printed)
    input,          \* arguments of a direct call of the retention or naming code
    output,         \* what that call returned
    job,            \* a dump or restore on its own: the database, the source
                    \* bytes, the artifact given, the kind of restore
    run,            \* backup.Run of the job: position, encoder, output file
    rst,            \* the restore of the job: position, calls, destination
    ret             \* a retention pre-check, upload and Retention step on their
                    \* own: position, destination, plan, calls

vars == <<frontend, args, selected, dryRun, skipRetention, mainPc, cmdErr, databases, retentionPlan,
          preLists, remote, bgPc, pc, progress, progressClosed, doneClosed,
          panicked, sent, received, states, results, tmpExists, toDelete,
          deleted, calls, failed, input, output, job, run, rst, ret>>

\* Destination contents before the run: every configured database has its k
\* most recent daily backups there (none, or MaxOld of them).
OldBackups(k) ==
    {[Name |-> FileName(n, Format(Now - i), Extension(Database(n))),
      Size |-> ArtifactSize, ModTime |-> Now - i] : n \in DBNames, i \in 1..k}

\* Command lines: no name (all databases), up to MaxArgs distinct names,
\* configured or not, or a configured name together with one that is not,
\* in either order.
RECURSIVE SeqsUpTo(_, _)
SeqsUpTo(S, n) ==
    IF n = 0 THEN {<<>>}
    ELSE LET shorter == SeqsUpTo(S, n - 1)
         IN  shorter \cup {Append(q, x) : q \in {r \in shorter : Len(r) = n - 1},
                                          x \in S}

Range(q) == {q[i] : i \in 1..Len(q)}

ArgChoices ==
    {q \in SeqsUpTo(DBNames \cup {UnknownName}, MaxArgs) :
        Cardinality(Range(q)) = Len(q)}
        \cup {<<n, UnknownName>> : n \in DBNames}
        \cup {<<UnknownName, n>> : n \in DBNames}

NoResult == [DBName |-> "", Success |-> FALSE, Error |-> NoError, Steps |-> <<>>]

InitState == [currentStep |-> "", messages |-> <<>>, done |-> FALSE, hasError |-> FALSE]

\* No direct call.
NoCall == [op |-> "none"]

\* No dump or restore on its own.
NoJob == [op |-> "none"]

NotStarted == [pc |-> "none"]

\* The state of a program that has started no pipeline.
NothingStarted ==
    /\ cmdErr = NoError
    /\ databases = <<>>
    /\ retentionPlan = [n \in DBNames |-> <<>>]
    /\ preLists = 0
    /\ bgPc = "idle"
    /\ pc = [n \in DBNames |-> "idle"]
    /\ progress = <<>>
    /\ progressClosed = FALSE
    /\ doneClosed = FALSE
    /\ panicked = FALSE
    /\ sent = [n \in DBNames |-> <<>>]
    /\ received = [n \in DBNames |-> <<>>]
    /\ states = [n \in DBNames |-> InitState]
    /\ results = [n \in DBNames |-> NoResult]
    /\ tmpExists = [n \in DBNames |-> FALSE]
    /\ toDelete = [n \in DBNames |-> <<>>]
    /\ deleted = [n \in DBNames |-> 0]
    /\ calls = [n \in DBNames |-> <<>>]
    /\ failed = -1

Init ==
    /\ frontend \in {"cli", "tui"}
    /\ IF frontend = "cli"
       THEN args \in ArgChoices /\ selected = {} /\ mainPc = "validate"
       ELSE args = <<>> /\ selected \in SUBSET DBNames /\ mainPc = "backupSelect"
    /\ dryRun \in BOOLEAN
    /\ skipRetention \in BOOLEAN
    /\ \E k \in {0, MaxOld} : remote = OldBackups(k)
    /\ NothingStarted
    /\ input = NoCall
    /\ output = NoCall
    /\ job = NoJob
    /\ run = NotStarted
    /\ rst = NotStarted
    /\ ret = NotStarted

\* A panic ends the process: no goroutine takes another step.
Alive == ~panicked

\* ---------------------------------------------------------------- runBackup (cmd/backup.go)
mainVars == <<mainPc, cmdErr, databases, retentionPlan, preLists, failed>>
engineVars == <<input, output>>
artifactVars == <<job, run, rst, ret>>
inputVars == <<frontend, args, selected, dryRun, skipRetention, engineVars, artifactVars>>
chanVars == <<progress, progressClosed, doneClosed, panicked>>
pipeVars == <<pc, sent, results, tmpExists, toDelete, deleted, calls>>
readerVars == <<received, states>>

\* A mutant of ValidateRequest: names that are not configured are dropped
\* from the request and the pipelines of the others are run.
ValidateRequestDropsUnknown ==
    /\ Alive
    /\ mainPc = "validate"
    /\ databases' = (IF Len(args) > 0
                     THEN SelectSeq(args, LAMBDA n : n \in DBNames)
                     ELSE SortedNames)
    /\ mainPc' = "precheck"
    /\ cmdErr' = cmdErr
    /\ UNCHANGED <<inputVars, retentionPlan, preLists, failed, remote, bgPc,
                   chanVars, pipeVars, readerVars>>

\* Lines 43-61: validate the requested names, default to every database.
ValidateRequest ==
    /\ Alive
    /\ mainPc = "validate"
    /\ IF \E i \in 1..Len(args) : args[i] \notin DBNames
       THEN /\ cmdErr' = "not found in config"
            /\ mainPc' = "exit"
            /\ databases' = databases
       ELSE /\ databases' = (IF Len(args) > 0 THEN args ELSE SortedNames)
            /\ mainPc' = "precheck"
            /\ cmdErr' = cmdErr
    /\ UNCHANGED <<inputVars, retentionPlan, preLists, failed, remote, bgPc,
                   chanVars, pipeVars, readerVars>>

\* orchestrator.PreCheckRetention: one List per database with a retention
\* rule; a failed listing skips the database; only non-empty deletion lists
\* get an entry.
PreCheckPlan(dbs, listed) ==
    [n \in DBNames |->
        IF n \in Range(dbs) /\ HasRetention(n) /\ n \in listed
        THEN ApplyFirstRule(List(remote), n, Retention(n))
        ELSE <<>>]

\* Lines 65-73: the retention pre-check, skipped under either option.
PreCheck ==
    /\ Alive
    /\ mainPc = "precheck"
    /\ IF ~dryRun /\ ~skipRetention
       THEN \E listed \in SUBSET {n \in Range(databases) : HasRetention(n)} :
              /\ retentionPlan' = PreCheckPlan(databases, listed)
              /\ preLists' = Cardinality({n \in Range(databases) : HasRetention(n)})
       ELSE UNCHANGED <<retentionPlan, preLists>>
    /\ mainPc' = "spawn"
    /\ UNCHANGED <<inputVars, cmdErr, databases, failed, remote, bgPc,
                   chanVars, pipeVars, readerVars>>

\* Lines 88-100: make the channels and start the background goroutine.
StartBackground ==
    /\ Alive
    /\ mainPc = "spawn"
    /\ mainPc' = "read"
    /\ bgPc' = "start"
    /\ UNCHANGED <<inputVars, cmdErr, databases, retentionPlan, preLists, failed,
                   remote, chanVars, pipeVars, readerVars>>

\* A mutant of RunBackups: the databases are backed up one run after the
\* other, only the first goroutine is launched.
RunBackupsFirstOnly ==
    /\ Alive
    /\ bgPc = "start"
    /\ bgPc' = "wait"
    /\ pc' = [n \in DBNames |->
                IF databases # <<>> /\ n = databases[1] THEN "sendDumping"
                ELSE IF n \in Range(databases) THEN "returned" ELSE "idle"]
    /\ results' = [n \in DBNames |->
                     IF n \in Range(databases)
                     THEN [DBName |-> n, Success |-> TRUE, Error |-> NoError, Steps |-> <<>>]
                     ELSE NoResult]
    /\ UNCHANGED <<inputVars, mainVars, remote, chanVars, readerVars,
                   sent, tmpExists, toDelete, deleted, calls>>

\* ---------------------------------------------------------------- RunBackups (orchestrator/backup.go)
\* Lines 100-113: one goroutine per database, none held back.
RunBackups ==
    /\ Alive
    /\ bgPc = "start"
    /\ bgPc' = "wait"
    /\ pc' = [n \in DBNames |-> IF n \in Range(databases) THEN "sendDumping" ELSE "idle"]
    /\ results' = [n \in DBNames |->
                     IF n \in Range(databases)
                     THEN [DBName |-> n, Success |-> TRUE, Error |-> NoError, Steps |-> <<>>]
                     ELSE NoResult]
    /\ UNCHANGED <<inputVars, mainVars, remote, chanVars, readerVars,
                   sent, tmpExists, toDelete, deleted, calls>>

\* A join that is released by the first wg.Done() instead of the last.
WaitGroupAny == \E n \in Range(databases) : pc[n] = "returned"

\* wg.Wait(): every launched goroutine has called wg.Done().
WaitGroupDone == \A n \in Range(databases) : pc[n] = "returned"

\* Lines 115-116: the join, then RunBackups returns.
RunBackupsReturn ==
    /\ Alive
    /\ bgPc = "wait"
    /\ WaitGroupDone
    /\ bgPc' = "returned"
    /\ UNCHANGED <<inputVars, mainVars, remote, chanVars, pipeVars, readerVars>>

\* cmd/backup.go:98
CloseProgress ==
    /\ Alive
    /\ bgPc = "returned"
    /\ bgPc' = "closedProgress"
    /\ progressClosed' = TRUE
    /\ UNCHANGED <<inputVars, mainVars, remote, progress, doneClosed, panicked,
                   pipeVars, readerVars>>

\* cmd/backup.go:99
CloseDone ==
    /\ Alive
    /\ bgPc = "closedProgress"
    /\ bgPc' = "finished"
    /\ doneClosed' = TRUE
    /\ UNCHANGED <<inputVars, mainVars, remote, progress, progressClosed, panicked,
                   pipeVars, readerVars>>

\* ---------------------------------------------------------------- runSingleBackup
\* Lines 135-137 without the DryRun test: the cleanup is always deferred.
CleanupAlways == TRUE

\* Lines 135-137: the deferred backup.Cleanup is registered unless DryRun.
CleanupDeferred == ~dryRun

\* backup.Cleanup called at the end of the function instead of deferred: an
\* error return skips it.
AfterReturnOnSuccessOnly(db) ==
    IF CleanupDeferred /\ \A i \in 1..Len(calls[db]) : calls[db][i].ok
    THEN [tmpExists EXCEPT ![db] = FALSE]
    ELSE tmpExists

\* backup.Cleanup, run by the defer when runSingleBackup returns after a
\* successful dump: os.RemoveAll of the artifact's directory.
AfterReturn(db) ==
    IF CleanupDeferred THEN [tmpExists EXCEPT ![db] = FALSE] ELSE tmpExists

\* The send with one result shared by all goroutines instead of one result per
\* goroutine: a failure recorded by one pipeline marks every result failed.
SendSharedResult(db, ev, next, res, throughDefer) ==
    /\ Alive
    /\ Len(progress) < ChanCap \/ progressClosed
    /\ IF progressClosed
       THEN /\ panicked' = TRUE
            /\ UNCHANGED <<progress, sent, pc, results, tmpExists>>
       ELSE /\ progress' = Append(progress, ev)
            /\ sent' = [sent EXCEPT ![db] = Append(@, ev)]
            /\ pc' = [pc EXCEPT ![db] = next]
            /\ results' = [n \in DBNames |->
                             IF n = db THEN res
                             ELSE IF ~res.Success
                                  THEN [results[n] EXCEPT !.Success = FALSE, !.Error = res.Error]
                                  ELSE results[n]]
            /\ tmpExists' = (IF throughDefer THEN AfterReturn(db) ELSE tmpExists)
            /\ panicked' = panicked
    /\ UNCHANGED <<inputVars, mainVars, remote, bgPc, progressClosed, doneClosed,
                   readerVars, toDelete, deleted, calls>>

\* progress <- ev, followed by the code up to the next blocking call: the
\* goroutine moves to position next with local result res; returning says the
\* function returns there, through its defers when the dump had succeeded.
\* A send on the closed channel panics.
Send(db, ev, next, res, throughDefer) ==
    /\ Alive
    /\ Len(progress) < ChanCap \/ progressClosed
    /\ IF progressClosed
       THEN /\ panicked' = TRUE
            /\ UNCHANGED <<progress, sent, pc, results, tmpExists>>
       ELSE /\ progress' = Append(progress, ev)
            /\ sent' = [sent EXCEPT ![db] = Append(@, ev)]
            /\ pc' = [pc EXCEPT ![db] = next]
            /\ results' = [results EXCEPT ![db] = res]
            /\ tmpExists' = (IF throughDefer THEN AfterReturn(db) ELSE tmpExists)
            /\ panicked' = panicked
    /\ UNCHANGED <<inputVars, mainVars, remote, bgPc, progressClosed, doneClosed,
                   readerVars, toDelete, deleted, calls>>

WithStep(res, ev) == [res EXCEPT !.Steps = Append(@, ev)]

Failed(res, err) == [res EXCEPT !.Success = FALSE, !.Error = err]

\* One collaborator call of a pipeline (backup.Run, storage.Upload, List or
\* Delete): the operation, whether it returned nil, and the file it names.
NoFile == [Name |-> <<>>, Size |-> 0, ModTime |-> 0]

Call(op, ok, file) == [op |-> op, ok |-> ok, file |-> file]

\* Line 125
SendDumping(db) ==
    /\ pc[db] = "sendDumping"
    /\ Send(db, Event(db, "dumping", "", NoError, FALSE, FALSE), "run", results[db], FALSE)

\* Line 127, backup.Run: on success the temp directory holds the artifact; on
\* a dump error Run has removed the directory before returning.
BackupRun(db) ==
    /\ Alive
    /\ pc[db] = "run"
    /\ \E ok \in BOOLEAN :
         /\ tmpExists' = [tmpExists EXCEPT ![db] = ok]
         /\ calls' = [calls EXCEPT ![db] = Append(@, Call("Run", ok, NoFile))]
         /\ pc' = [pc EXCEPT ![db] = IF ok THEN "sendDumped" ELSE "sendDumpError"]
    /\ UNCHANGED <<inputVars, mainVars, remote, bgPc, chanVars, readerVars,
                   sent, results, toDelete, deleted>>

\* Lines 128-133 without the return of line 132: the pipeline goes on to the
\* upload step after reporting the dump error.
SendDumpErrorNoReturn(db) ==
    /\ pc[db] = "sendDumpError"
    /\ Send(db, Event(db, "dumping", "", "dump failed", FALSE, TRUE),
            IF dryRun THEN "sendUploadSkipped" ELSE "sendUploading",
            Failed(results[db], "dump failed"), FALSE)

\* Lines 128-133
SendDumpError(db) ==
    /\ pc[db] = "sendDumpError"
    /\ Send(db, Event(db, "dumping", "", "dump failed", FALSE, TRUE), "returned",
            Failed(results[db], "dump failed"), FALSE)

\* Lines 139-141 with the upload step of lines 143-161 left out: the pipeline
\* goes from the dump straight to the retention step.
SendDumpedSkipsUpload(db) ==
    /\ pc[db] = "sendDumped"
    /\ LET ev == Event(db, "dumping", "Dumped", NoError, FALSE, FALSE)
       IN  Send(db, ev,
                IF dryRun \/ skipRetention THEN "sendRetentionSkipped"
                ELSE IF HasRetention(db) THEN "sendRetention" ELSE "sendNoPolicy",
                WithStep(results[db], ev), FALSE)

\* Lines 139-141 with the DryRun test of line 144 left out: the upload is
\* performed under DryRun too.
SendDumpedAlwaysUploads(db) ==
    /\ pc[db] = "sendDumped"
    /\ LET ev == Event(db, "dumping", "Dumped", NoError, FALSE, FALSE)
       IN  Send(db, ev, "sendUploading", WithStep(results[db], ev), FALSE)

\* Lines 139-141, then the branch of line 144
SendDumped(db) ==
    /\ pc[db] = "sendDumped"
    /\ LET ev == Event(db, "dumping", "Dumped", NoError, FALSE, FALSE)
       IN  Send(db, ev, IF dryRun THEN "sendUploadSkipped" ELSE "sendUploading",
                WithStep(results[db], ev), FALSE)

\* The branch of lines 165-201 without the SkipRetention test of line 167.
RetentionBranchIgnoresSkip(db) ==
    IF dryRun THEN "sendRetentionSkipped"
    ELSE IF HasRetention(db) THEN "sendRetention"
    ELSE "sendNoPolicy"

\* Lines 165-201: which branch the retention step takes.
RetentionBranch(db) ==
    IF dryRun THEN "sendRetentionSkipped"
    ELSE IF skipRetention THEN "sendRetentionSkipped"
    ELSE IF HasRetention(db) THEN "sendRetention"
    ELSE "sendNoPolicy"

\* Lines 144-147
SendUploadSkipped(db) ==
    /\ pc[db] = "sendUploadSkipped"
    /\ LET ev == [Event(db, "uploading", "Upload skipped (dry-run), file at", NoError, TRUE, FALSE)
                    EXCEPT !.path = ArtifactPath(db)]
       IN  Send(db, ev, RetentionBranch(db), WithStep(results[db], ev), FALSE)

\* Line 149
SendUploading(db) ==
    /\ pc[db] = "sendUploading"
    /\ Send(db, Event(db, "uploading", "", NoError, FALSE, FALSE), "upload", results[db], FALSE)

\* storage.Upload: copies the artifact to the destination under its file
\* name, replacing a file of the same name; nothing is stored on failure.
Upload(files, db) ==
    {f \in files : f.Name # NewArtifact(db).Name} \cup {NewArtifact(db)}

\* Line 151 with the error branch of lines 151-156 dropped: a failed upload
\* goes on as a successful one does.
StorageUploadErrorIgnored(db) ==
    /\ Alive
    /\ pc[db] = "upload"
    /\ \E ok \in BOOLEAN :
         /\ remote' = (IF ok THEN Upload(remote, db) ELSE remote)
         /\ calls' = [calls EXCEPT ![db] = Append(@, Call("Upload", ok, NewArtifact(db)))]
         /\ pc' = [pc EXCEPT ![db] = "sendSaved"]
    /\ UNCHANGED <<inputVars, mainVars, bgPc, chanVars, readerVars,
                   sent, results, tmpExists, toDelete, deleted>>

\* Line 151
StorageUpload(db) ==
    /\ Alive
    /\ pc[db] = "upload"
    /\ \E ok \in BOOLEAN :
         /\ remote' = (IF ok THEN Upload(remote, db) ELSE remote)
         /\ calls' = [calls EXCEPT ![db] = Append(@, Call("Upload", ok, NewArtifact(db)))]
         /\ pc' = [pc EXCEPT ![db] = IF ok THEN "sendSaved" ELSE "sendUploadError"]
    /\ UNCHANGED <<inputVars, mainVars, bgPc, chanVars, readerVars,
                   sent, results, tmpExists, toDelete, deleted>>

\* Lines 152-155
SendUploadError(db) ==
    /\ pc[db] = "sendUploadError"
    /\ Send(db, Event(db, "uploading", "", "upload failed", FALSE, TRUE), "returned",
            Failed(results[db], "upload failed"), TRUE)

\* Lines 158-160, then the branch of lines 165-171
SendSaved(db) ==
    /\ pc[db] = "sendSaved"
    /\ LET ev == Event(db, "uploading", "Saved to", NoError, FALSE, FALSE)
       IN  Send(db, ev, RetentionBranch(db), WithStep(results[db], ev), FALSE)

\* Lines 165-170: skipped under DryRun or SkipRetention, always reported.
SendRetentionSkipped(db) ==
    /\ pc[db] = "sendRetentionSkipped"
    /\ LET msg == IF dryRun THEN "Retention skipped (dry-run)" ELSE "Skipped (--skip-retention)"
           ev == Event(db, "retention", msg, NoError, TRUE, TRUE)
       IN  Send(db, ev, "returned", WithStep(results[db], [ev EXCEPT !.Done = FALSE]), TRUE)

\* Line 172
SendRetention(db) ==
    /\ pc[db] = "sendRetention"
    /\ Send(db, Event(db, "retention", "", NoError, FALSE, FALSE), "list", results[db], FALSE)

\* Lines 175-184: re-list the destination after the upload and recompute the
\* deletion list from that listing.
StorageList(db) ==
    /\ Alive
    /\ pc[db] = "list"
    /\ \E ok \in BOOLEAN :
         /\ calls' = [calls EXCEPT ![db] = Append(@, Call("List", ok, NoFile))]
         /\ IF ok
            THEN LET del == ApplyFirstRule(List(remote), db, Retention(db))
                 IN  /\ toDelete' = [toDelete EXCEPT ![db] = del]
                     /\ pc' = [pc EXCEPT ![db] = IF Len(del) > 0 THEN "delete" ELSE "sendNoOld"]
            ELSE /\ toDelete' = toDelete
                 /\ pc' = [pc EXCEPT ![db] = "sendListError"]
    /\ UNCHANGED <<inputVars, mainVars, remote, bgPc, chanVars, readerVars,
                   sent, results, tmpExists, deleted>>

\* A mutant of SendListError: the error of the listing is reported without
\* the Done flag.
SendListErrorNotDone(db) ==
    /\ pc[db] = "sendListError"
    /\ LET ev == Event(db, "retention", "", "list failed", FALSE, FALSE)
       IN  Send(db, ev, "returned",
                [WithStep(results[db], ev) EXCEPT !.Error = "list failed"],
                TRUE)

\* Lines 176-181: Success stays as it was, only Error is set.
SendListError(db) ==
    /\ pc[db] = "sendListError"
    /\ LET ev == Event(db, "retention", "", "list failed", FALSE, TRUE)
       IN  Send(db, ev, "returned",
                [WithStep(results[db], [ev EXCEPT !.Done = FALSE]) EXCEPT !.Error = "list failed"],
                TRUE)

\* storage.Delete: removes the named file; fails when it is not there.
Delete(files, f) == {g \in files : g.Name # f.Name}

Present(files, f) == \E g \in files : g.Name = f.Name

\* A mutant of StorageDelete: the first failed Delete ends the loop.
StorageDeleteStopsOnError(db) ==
    /\ Alive
    /\ pc[db] = "delete"
    /\ LET f == Head(toDelete[db])
       IN  \E ok \in {b \in BOOLEAN : b => Present(remote, f)} :
             /\ remote' = (IF ok THEN Delete(remote, f) ELSE remote)
             /\ deleted' = [deleted EXCEPT ![db] = IF ok THEN @ + 1 ELSE @]
             /\ calls' = [calls EXCEPT ![db] = Append(@, Call("Delete", ok, f))]
             /\ toDelete' = [toDelete EXCEPT ![db] = IF ok THEN Tail(@) ELSE <<>>]
             /\ pc' = [pc EXCEPT ![db] =
                         IF ok /\ Len(toDelete[db]) > 1 THEN "delete" ELSE "sendDeleted"]
    /\ UNCHANGED <<inputVars, mainVars, bgPc, chanVars, readerVars, sent, results, tmpExists>>

\* Lines 186-190: one iteration of the delete loop; a failed Delete is not
\* counted and the loop goes on.
StorageDelete(db) ==
    /\ Alive
    /\ pc[db] = "delete"
    /\ LET f == Head(toDelete[db])
       IN  \E ok \in {b \in BOOLEAN : b => Present(remote, f)} :
             /\ remote' = (IF ok THEN Delete(remote, f) ELSE remote)
             /\ deleted' = [deleted EXCEPT ![db] = IF ok THEN @ + 1 ELSE @]
             /\ calls' = [calls EXCEPT ![db] = Append(@, Call("Delete", ok, f))]
             /\ toDelete' = [toDelete EXCEPT ![db] = Tail(@)]
             /\ pc' = [pc EXCEPT ![db] =
                         IF Len(toDelete[db]) > 1 THEN "delete" ELSE "sendDeleted"]
    /\ UNCHANGED <<inputVars, mainVars, bgPc, chanVars, readerVars, sent, results, tmpExists>>

\* Lines 191-193
SendDeleted(db) ==
    /\ pc[db] = "sendDeleted"
    /\ LET ev == [Event(db, "retention", "Deleted old backup(s)", NoError, FALSE, TRUE)
                    EXCEPT !.n = deleted[db]]
       IN  Send(db, ev, "returned", WithStep(results[db], [ev EXCEPT !.Done = FALSE]), TRUE)

\* Lines 194-197
SendNoOld(db) ==
    /\ pc[db] = "sendNoOld"
    /\ LET ev == Event(db, "retention", "No old backups to delete", NoError, TRUE, TRUE)
       IN  Send(db, ev, "returned", WithStep(results[db], [ev EXCEPT !.Done = FALSE]), TRUE)

\* Lines 198-201
SendNoPolicy(db) ==
    /\ pc[db] = "sendNoPolicy"
    /\ LET ev == Event(db, "retention", "No retention policy", NoError, TRUE, TRUE)
       IN  Send(db, ev, "returned", WithStep(results[db], [ev EXCEPT !.Done = FALSE]), TRUE)

\* A mutant of Record: hasError is set only in the branch for events with a
\* message; an error event without message is printed but not counted.
RecordMessageErrorsOnly(state, p) ==
    [currentStep |-> p.Step,
     messages |-> IF p.Message # "" \/ p.Error # NoError
                  THEN Append(state.messages, p.Message)
                  ELSE state.messages,
     done |-> state.done \/ p.Done,
     hasError |-> state.hasError \/ (p.Message # "" /\ p.Error # NoError)]

\* ---------------------------------------------------------------- the reader (cmd/backup.go:102-160)
\* Lines 111-131: the loop body's update of states[p.DBName].
Record(state, p) ==
    [currentStep |-> p.Step,
     messages |-> IF p.Message # "" \/ p.Error # NoError
                  THEN Append(state.messages, p.Message)
                  ELSE state.messages,
     done |-> state.done \/ p.Done,
     hasError |-> state.hasError \/ p.Error # NoError]

\* The loop of lines 103-133 placed after the <-done of line 135: nothing is
\* read before the background goroutine has finished.
ReadProgressAfterDone ==
    /\ Alive
    /\ mainPc = "read"
    /\ doneClosed
    /\ Len(progress) > 0
    /\ LET p == Head(progress)
       IN  /\ progress' = Tail(progress)
           /\ received' = [received EXCEPT ![p.DBName] = Append(@, p)]
           /\ states' = [states EXCEPT ![p.DBName] = Record(@, p)]
    /\ UNCHANGED <<inputVars, mainVars, remote, bgPc, progressClosed, doneClosed,
                   panicked, pipeVars>>

\* Lines 103-133: one iteration of `for p := range progress`.
ReadProgress ==
    /\ Alive
    /\ mainPc = "read"
    /\ Len(progress) > 0
    /\ LET p == Head(progress)
       IN  /\ progress' = Tail(progress)
           /\ received' = [received EXCEPT ![p.DBName] = Append(@, p)]
           /\ states' = [states EXCEPT ![p.DBName] = Record(@, p)]
    /\ UNCHANGED <<inputVars, mainVars, remote, bgPc, progressClosed, doneClosed,
                   panicked, pipeVars>>

\* The range loop ends when the channel is closed and drained.
ReadClosed ==
    /\ Alive
    /\ mainPc = "read"
    /\ progress = <<>>
    /\ progressClosed
    /\ mainPc' = "waitDone"
    /\ UNCHANGED <<inputVars, cmdErr, databases, retentionPlan, preLists, failed,
                   remote, bgPc, chanVars, pipeVars, readerVars>>

\* Lines 135-159: <-done, then the summary.
Summary ==
    /\ Alive
    /\ mainPc = "waitDone"
    /\ doneClosed
    /\ failed' = Cardinality({n \in Range(databases) : states[n].hasError})
    /\ mainPc' = "exit"
    /\ UNCHANGED <<inputVars, cmdErr, databases, retentionPlan, preLists,
                   remote, bgPc, chanVars, pipeVars, readerVars>>

\* ---------------------------------------------------------------- TUI backup flow (tui/tui.go)
\* The Bubble Tea program handles one message at a time in Update; every
\* command runs in a goroutine of its own and its result comes back as a
\* message.  pc[db] says which command or message of the database is in
\* flight; state.result is set exactly while tmpExists[db].

\* startBackups: every queued database starts at the dump step, all commands
\* batched at once.
startBackups(queue) ==
    /\ mainPc' = "backupRunning"
    /\ pc' = [n \in DBNames |-> IF n \in Range(queue) THEN "stepCmd" ELSE "idle"]
    /\ states' = [n \in DBNames |->
                    IF n \in Range(queue)
                    THEN [InitState EXCEPT !.currentStep = "dumping"]
                    ELSE InitState]

\* Enter on "Run Backup" (viewBackupSelect): the queue is the selection in the
\* order of m.dbNames; the pre-check runs only without DryRun and
\* SkipRetention and when a queued database has a retention rule.
RunBackupSelected ==
    /\ Alive
    /\ mainPc = "backupSelect"
    /\ LET sel(n) == n \in selected
           queue == SelectSeq(SortedNames, sel)
       IN  /\ databases' = queue
           /\ IF queue = <<>>
              THEN /\ cmdErr' = "no databases selected"
                   /\ mainPc' = "viewDone"
                   /\ UNCHANGED <<pc, states>>
              ELSE IF dryRun \/ skipRetention \/ ~\E n \in Range(queue) : HasRetention(n)
              THEN /\ startBackups(queue)
                   /\ cmdErr' = cmdErr
              ELSE /\ mainPc' = "retentionPreCheck"
                   /\ UNCHANGED <<pc, states, cmdErr>>
    /\ UNCHANGED <<inputVars, retentionPlan, preLists, failed, remote, bgPc, chanVars,
                   received, sent, results, tmpExists, toDelete, deleted, calls>>

\* The plan entries runRetentionPreCheck can return for a database: none when
\* it has no rule or its listing failed, else Apply with one pending backup.
PlanEntries(n, listed) ==
    IF n \in Range(databases) /\ HasRetention(n) /\ n \in listed
    THEN Orderings(Apply(List(remote), n, Retention(n), 1))
    ELSE {<<>>}

\* The runRetentionPreCheck command and Update's retentionPreCheckMsg case:
\* the plan is stored; a non-empty plan asks for confirmation, an empty one
\* starts the backups.
RetentionPreCheck ==
    /\ Alive
    /\ mainPc = "retentionPreCheck"
    /\ \E listed \in SUBSET {n \in Range(databases) : HasRetention(n)} :
         \E plan \in [DBNames -> UNION {PlanEntries(n, listed) : n \in DBNames}] :
           /\ \A n \in DBNames : plan[n] \in PlanEntries(n, listed)
           /\ retentionPlan' = plan
           /\ preLists' = Cardinality({n \in Range(databases) : HasRetention(n)})
           /\ IF \E n \in DBNames : plan[n] # <<>>
              THEN /\ mainPc' = "retentionPreConfirm"
                   /\ UNCHANGED <<pc, states>>
              ELSE startBackups(databases)
    /\ UNCHANGED <<inputVars, cmdErr, databases, failed, remote, bgPc, chanVars,
                   received, sent, results, tmpExists, toDelete, deleted, calls>>

\* viewRetentionPreConfirm: "yes" keeps the plan, "no" turns the retention
\* step off and drops the plan.
ConfirmRetention ==
    /\ Alive
    /\ mainPc = "retentionPreConfirm"
    /\ \E yes \in BOOLEAN :
         /\ skipRetention' = (IF yes THEN skipRetention ELSE TRUE)
         /\ retentionPlan' = (IF yes THEN retentionPlan ELSE [n \in DBNames |-> <<>>])
    /\ startBackups(databases)
    /\ UNCHANGED <<frontend, args, selected, dryRun, engineVars, artifactVars, cmdErr, databases, preLists, failed,
                   remote, bgPc, chanVars, received, sent, results, tmpExists,
                   toDelete, deleted, calls>>

\* A step message returned by a command of the database.
Returns(db, ev, next) ==
    /\ sent' = [sent EXCEPT ![db] = Append(@, ev)]
    /\ pc' = [pc EXCEPT ![db] = next]

\* The command of runBackupStepFor, for the step the database is at.
RunBackupStepFor(db) ==
    /\ Alive
    /\ pc[db] = "stepCmd"
    /\ IF states[db].currentStep = "dumping"
       THEN \E ok \in BOOLEAN :
              /\ calls' = [calls EXCEPT ![db] = Append(@, Call("Run", ok, NoFile))]
              /\ tmpExists' = [tmpExists EXCEPT ![db] = ok]
              /\ Returns(db, IF ok THEN Event(db, "dumping", "Dumped", NoError, FALSE, FALSE)
                             ELSE Event(db, "dumping", "", "dump failed", FALSE, FALSE),
                         "stepDoneMsg")
              /\ UNCHANGED <<toDelete, deleted>>
       ELSE IF states[db].currentStep = "uploading"
       THEN /\ IF dryRun
               THEN Returns(db, [Event(db, "uploading", "Upload skipped (dry-run), file at",
                                       NoError, TRUE, FALSE)
                                   EXCEPT !.path = IF tmpExists[db] THEN ArtifactPath(db) ELSE ""],
                            "stepDoneMsg")
               ELSE IF ~tmpExists[db]
               THEN Returns(db, Event(db, "uploading", "", "no backup result to upload",
                                      FALSE, FALSE),
                            "stepDoneMsg")
               ELSE pc' = [pc EXCEPT ![db] = "startUploadMsg"] /\ sent' = sent
            /\ UNCHANGED <<calls, tmpExists, toDelete, deleted>>
       ELSE /\ IF dryRun
               THEN /\ Returns(db, Event(db, "retention", "Retention skipped (dry-run)",
                                         NoError, TRUE, FALSE),
                               "stepDoneMsg")
                    /\ UNCHANGED <<toDelete, deleted>>
               ELSE IF skipRetention
               THEN /\ Returns(db, Event(db, "retention", "Retention skipped",
                                         NoError, TRUE, FALSE),
                               "stepDoneMsg")
                    /\ UNCHANGED <<toDelete, deleted>>
               ELSE IF Len(retentionPlan[db]) > 0
               THEN /\ toDelete' = [toDelete EXCEPT ![db] = retentionPlan[db]]
                    /\ deleted' = [deleted EXCEPT ![db] = 0]
                    /\ pc' = [pc EXCEPT ![db] = "deleting"]
                    /\ sent' = sent
               ELSE IF HasRetention(db)
               THEN /\ Returns(db, Event(db, "retention", "No old backups to delete",
                                         NoError, TRUE, FALSE),
                               "stepDoneMsg")
                    /\ UNCHANGED <<toDelete, deleted>>
               ELSE /\ Returns(db, Event(db, "retention", "No retention policy",
                                         NoError, TRUE, FALSE),
                               "stepDoneMsg")
                    /\ UNCHANGED <<toDelete, deleted>>
            /\ UNCHANGED <<calls, tmpExists>>
    /\ UNCHANGED <<inputVars, mainVars, remote, bgPc, chanVars, readerVars, results>>

\* One iteration of the delete loop of the retention command: the files of
\* the plan entry, a failed Delete not counted; the message follows the last.
DeletePlanned(db) ==
    /\ Alive
    /\ pc[db] = "deleting"
    /\ LET f == Head(toDelete[db])
       IN  \E ok \in {b \in BOOLEAN : b => Present(remote, f)} :
             LET n == IF ok THEN deleted[db] + 1 ELSE deleted[db]
             IN  /\ remote' = (IF ok THEN Delete(remote, f) ELSE remote)
                 /\ deleted' = [deleted EXCEPT ![db] = n]
                 /\ calls' = [calls EXCEPT ![db] = Append(@, Call("Delete", ok, f))]
                 /\ toDelete' = [toDelete EXCEPT ![db] = Tail(@)]
                 /\ IF Len(toDelete[db]) > 1
                    THEN UNCHANGED <<pc, sent>>
                    ELSE Returns(db, [Event(db, "retention", "Deleted old backup(s)",
                                            NoError, FALSE, FALSE) EXCEPT !.n = n],
                                 "stepDoneMsg")
    /\ UNCHANGED <<inputVars, mainVars, bgPc, chanVars, readerVars, results, tmpExists>>

\* The log entry handleBackupStepDone and handleUploadProgress append.
Logged(state, text, isError) ==
    [state EXCEPT !.messages = Append(@, text), !.hasError = @ \/ isError]

\* handleBackupStepDone: an error cleans the artifact up and ends the
\* database; otherwise the next step's command is started, and after the
\* retention step the artifact is cleaned up unless DryRun.
handleBackupStepDone(db) ==
    /\ Alive
    /\ pc[db] = "stepDoneMsg"
    /\ LET msg == sent[db][Len(sent[db])]
           isErr == msg.Error # NoError
           logged == Logged(states[db], IF isErr THEN msg.Error ELSE msg.Message, isErr)
           ended == [logged EXCEPT !.done = TRUE, !.currentStep = "idle"]
       IN  IF isErr
           THEN /\ tmpExists' = [tmpExists EXCEPT ![db] = FALSE]
                /\ states' = [states EXCEPT ![db] = ended]
                /\ pc' = [pc EXCEPT ![db] = "returned"]
           ELSE IF msg.Step = "dumping"
           THEN /\ states' = [states EXCEPT ![db] = [logged EXCEPT !.currentStep = "uploading"]]
                /\ pc' = [pc EXCEPT ![db] = "stepCmd"]
                /\ tmpExists' = tmpExists
           ELSE IF msg.Step = "uploading"
           THEN /\ states' = [states EXCEPT ![db] = [logged EXCEPT !.currentStep = "retention"]]
                /\ pc' = [pc EXCEPT ![db] = "stepCmd"]
                /\ tmpExists' = tmpExists
           ELSE /\ tmpExists' = (IF ~dryRun THEN [tmpExists EXCEPT ![db] = FALSE]
                                 ELSE tmpExists)
                /\ states' = [states EXCEPT ![db] = ended]
                /\ pc' = [pc EXCEPT ![db] = "returned"]
    /\ UNCHANGED <<inputVars, mainVars, remote, bgPc, chanVars, received, sent, results,
                   toDelete, deleted, calls>>

\* startUploadWithProgress, on startUploadMsg: os.Stat of the artifact; on
\* success the upload goroutine is started and the first wait command issued.
startUploadWithProgress(db) ==
    /\ Alive
    /\ pc[db] = "startUploadMsg"
    /\ \E statOk \in BOOLEAN :
         IF statOk
         THEN pc' = [pc EXCEPT ![db] = "uploadRunning"] /\ sent' = sent
         ELSE Returns(db, Event(db, "uploading", "", "getting file info", FALSE, FALSE),
                      "stepDoneMsg")
    /\ UNCHANGED <<inputVars, mainVars, remote, bgPc, chanVars, readerVars, results,
                   tmpExists, toDelete, deleted, calls>>

\* The storage.UploadWithProgress goroutine and waitForUploadProgress reading
\* its final progress value: a success comes back as the step's "Saved to"
\* message, a failure as an uploadProgressMsg carrying the error.  Progress
\* values before the final one only update the byte counters shown and issue
\* the wait command again.
UploadWithProgress(db) ==
    /\ Alive
    /\ pc[db] = "uploadRunning"
    /\ \E ok \in BOOLEAN :
         /\ remote' = (IF ok THEN Upload(remote, db) ELSE remote)
         /\ calls' = [calls EXCEPT ![db] = Append(@, Call("Upload", ok, NewArtifact(db)))]
         /\ IF ok
            THEN Returns(db, Event(db, "uploading", "Saved to", NoError, FALSE, FALSE),
                         "stepDoneMsg")
            ELSE Returns(db, Event(db, "uploading", "", "upload failed", FALSE, TRUE),
                         "uploadProgressMsg")
    /\ UNCHANGED <<inputVars, mainVars, bgPc, chanVars, readerVars, results, tmpExists,
                   toDelete, deleted>>

\* handleUploadProgress with msg.err set: the failure is logged and the
\* database marked done; state.result is left as it is.
handleUploadProgress(db) ==
    /\ Alive
    /\ pc[db] = "uploadProgressMsg"
    /\ states' = [states EXCEPT ![db] =
                    [Logged(@, "Upload failed", TRUE) EXCEPT !.done = TRUE,
                                                             !.currentStep = "idle"]]
    /\ pc' = [pc EXCEPT ![db] = "returned"]
    /\ UNCHANGED <<inputVars, mainVars, remote, bgPc, chanVars, received, sent, results,
                   tmpExists, toDelete, deleted, calls>>

\* checkAllBackupsDone finding every database done, and its allBackupsDoneMsg.
allBackupsDone ==
    /\ Alive
    /\ mainPc = "backupRunning"
    /\ \A n \in Range(databases) : states[n].done
    /\ mainPc' = "allBackupsDone"
    /\ UNCHANGED <<inputVars, cmdErr, databases, retentionPlan, preLists, failed, remote,
                   bgPc, chanVars, pipeVars, readerVars>>

\* ---------------------------------------------------------------- specification
Next ==
    \/ ValidateRequest
    \/ PreCheck
    \/ StartBackground
    \/ RunBackups
    \/ RunBackupsReturn
    \/ CloseProgress
    \/ CloseDone
    \/ \E db \in DBNames : SendDumping(db)
    \/ \E db \in DBNames : BackupRun(db)
    \/ \E db \in DBNames : SendDumpError(db)
    \/ \E db \in DBNames : SendDumped(db)
    \/ \E db \in DBNames : SendUploadSkipped(db)
    \/ \E db \in DBNames : SendUploading(db)
    \/ \E db \in DBNames : StorageUpload(db)
    \/ \E db \in DBNames : SendUploadError(db)
    \/ \E db \in DBNames : SendSaved(db)
    \/ \E db \in DBNames : SendRetentionSkipped(db)
    \/ \E db \in DBNames : SendRetention(db)
    \/ \E db \in DBNames : StorageList(db)
    \/ \E db \in DBNames : SendListError(db)
    \/ \E db \in DBNames : StorageDelete(db)
    \/ \E db \in DBNames : SendDeleted(db)
    \/ \E db \in DBNames : SendNoOld(db)
    \/ \E db \in DBNames : SendNoPolicy(db)
    \/ ReadProgress
    \/ ReadClosed
    \/ Summary
    \/ RunBackupSelected
    \/ RetentionPreCheck
    \/ ConfirmRetention
    \/ \E db \in DBNames : RunBackupStepFor(db)
    \/ \E db \in DBNames : DeletePlanned(db)
    \/ \E db \in DBNames : handleBackupStepDone(db)
    \/ \E db \in DBNames : startUploadWithProgress(db)
    \/ \E db \in DBNames : UploadWithProgress(db)
    \/ \E db \in DBNames : handleUploadProgress(db)
    \/ allBackupsDone

Spec == Init /\ [][Next]_vars

\* Every goroutine that can take a step eventually takes one: the Go scheduler
\* runs every runnable goroutine, and the collaborators' calls return.
PipelineStep(db) ==
    \/ SendDumping(db)
    \/ BackupRun(db)
    \/ SendDumpError(db)
    \/ SendDumped(db)
    \/ SendUploadSkipped(db)
    \/ SendUploading(db)
    \/ StorageUpload(db)
    \/ SendUploadError(db)
    \/ SendSaved(db)
    \/ SendRetentionSkipped(db)
    \/ SendRetention(db)
    \/ StorageList(db)
    \/ SendListError(db)
    \/ StorageDelete(db)
    \/ SendDeleted(db)
    \/ SendNoOld(db)
    \/ SendNoPolicy(db)

MainStep == ValidateRequest \/ PreCheck \/ StartBackground \/ ReadProgress \/ ReadClosed \/ Summary

BackgroundStep == RunBackups \/ RunBackupsReturn \/ CloseProgress \/ CloseDone

Fairness ==
    /\ WF_vars(MainStep)
    /\ WF_vars(BackgroundStep)
    /\ \A db \in DBNames : WF_vars(PipelineStep(db))

FairSpec == Init /\ [][Next]_vars /\ Fairness

\* ---------------------------------------------------------------- direct calls
\* The retention engine and the naming code called on their own, with the
\* arguments drawn from the sets below.
programVars == <<frontend, args, selected, dryRun, skipRetention, mainVars, chanVars,
                 pipeVars, readerVars, remote, bgPc>>

RemoteFile(name, size, modTime) == [Name |-> name, Size |-> size, ModTime |-> modTime]

\* Files a destination can hold: backups of mydb of several ages and sizes
\* (one exactly KeepDays old, one uploaded long after the time in its name, one
\* under a directory), a backup named MyDB of the same second as one of mydb,
\* a backup of another database, a file that is no backup and a backup-like
\* name whose date does not exist.
FilePool ==
    { RemoteFile(FileName("mydb", Format(Now), <<".", "sql">>), 1, Now),
      RemoteFile(FileName("mydb", Format(Now - 1), <<".", "sql">>), 2, 2),
      RemoteFile(FileName("mydb", Format(Now - 2), <<".", "sql">>), 3, Now - 2),
      RemoteFile(FileName("MyDB", Format(Now - 1), <<".", "sql">>), 2, Now - 1),
      RemoteFile(<<"backups", "/">> \o FileName("mydb", Format(Now - 5), <<".", "sql", ".", "gz">>),
                 1, Now - 5),
      RemoteFile(FileName("other", Format(Now - 3), <<".", "sql">>), 2, Now - 3),
      RemoteFile(<<"readme", ".", "txt">>, 1, Now),
      RemoteFile(FileName("mydb", BadStamp, <<".", "sql">>), 1, Now - 4) }

\* Listings: up to MaxFiles distinct files of the pool, in any order.
Listings == {q \in SeqsUpTo(FilePool, MaxFiles) : Cardinality(Range(q)) = Len(q)}

\* config.Retention values: every combination of enabled and disabled rules.
RuleSets == [KeepLast : 0..2, KeepDays : {0, 2}, MaxSizeMB : {0, 2}]

TargetNames == {"mydb", "MyDB"}

\* mydb backups of the given ages in days and sizes, oldest first.
Aged(ages, sizes) ==
    [i \in 1..Len(ages) |->
        RemoteFile(FileName("mydb", Format(Now - ages[i]), <<".", "sql">>), sizes[i], Now - ages[i])]

\* Backups of ages 0, 3, 7 and 10 days under KeepDays = 5.
KeepDaysExample ==
    [op |-> "Apply", files |-> Aged(<<10, 7, 3, 0>>, <<1, 1, 1, 1>>), dbName |-> "mydb",
     retention |-> [KeepLast |-> 0, KeepDays |-> 5, MaxSizeMB |-> 0], pendingBackups |-> 0,
     times |-> 2]

\* Four files of 5 MB each under MaxSizeMB = 12.
MaxSizeExample ==
    [op |-> "Apply", files |-> Aged(<<3, 2, 1, 0>>, <<5 * MB, 5 * MB, 5 * MB, 5 * MB>>),
     dbName |-> "mydb",
     retention |-> [KeepLast |-> 0, KeepDays |-> 0, MaxSizeMB |-> 12], pendingBackups |-> 0,
     times |-> 2]

\* Five files under KeepLast = 3 (TestApplyReturnsCorrectFiles).
KeepLastExample ==
    [op |-> "Apply", files |-> Aged(<<4, 3, 2, 1, 0>>, <<1, 1, 1, 1, 1>>), dbName |-> "mydb",
     retention |-> [KeepLast |-> 3, KeepDays |-> 0, MaxSizeMB |-> 0], pendingBackups |-> 0,
     times |-> 2]

\* Arguments of Apply, with the number of times the call is made: once for the
\* listings of the pool, twice for the three examples.
ApplyInputs ==
    [op : {"Apply"}, files : Listings, dbName : TargetNames, retention : RuleSets,
     pendingBackups : 0..2, times : {1}]
        \cup {KeepDaysExample, MaxSizeExample, KeepLastExample}

FilterInputs == [op : {"filterByName"}, files : Listings, dbName : TargetNames]

\* Database names config.Validate accepts.
ValidNames == {"mydb", "MyDB", "my_db"}

\* db.Path values of file databases: with an extension, without one, with a
\* dot in a directory only, ending in a dot, with an extension that holds a
\* date, and with the extension of a compressed file.
Paths ==
    { <<"/", "data", "/", "app", ".", "db">>,
      <<"/", "data", "/", "app">>,
      <<"/", "data", ".", "d", "/", "app">>,
      <<"/", "data", "/", "app", ".">>,
      <<"/", "data", "/", "app", ".", "v", "_", Format(1)>>,
      <<"/", "data", "/", "app", ".", "gz">> }

\* config.Database values config.Validate accepts, as far as backup.Run reads
\* them.
Databases ==
    [Type : {"file"}, Path : Paths, Compression : {"none", "gz", "zstd", "xz", "zip"}]
        \cup [Type : {"mysql", "postgres"}, Path : {<<>>},
              Compression : {"none", "gz", "zstd", "xz", "zip"}]

RunInputs == [op : {"Run"}, name : ValidNames, db : Databases, day : {1, Now}]

\* File names that do not follow the naming convention.
OtherFilenames ==
    { <<"readme", ".", "txt">>,
      <<"mydb", ".", "sql">>,
      <<"mydb", "_", "2024", ".", "sql">>,
      FileName("mydb", BadStamp, <<".", "sql">>),
      <<"mydb", "_", Format(Now)>>,
      <<"_", Format(Now), ".", "sql">>,
      <<Format(Now), ".", "sql">> }

ParseInputs == [op : {"parseFilename"}, filename : OtherFilenames]

EngineInit ==
    /\ frontend = "cli"
    /\ args = <<>>
    /\ selected = {}
    /\ mainPc = "validate"
    /\ dryRun = FALSE
    /\ skipRetention = FALSE
    /\ remote = {}
    /\ NothingStarted
    /\ input \in ApplyInputs \cup FilterInputs \cup RunInputs \cup ParseInputs
    /\ output = NoCall
    /\ job = NoJob
    /\ run = NotStarted
    /\ rst = NotStarted
    /\ ret = NotStarted

\* retention.Apply(ctx, files, dbName, retention, pendingBackups), called
\* input.times times with the same arguments.
CallApply ==
    /\ input.op = "Apply"
    /\ output.op = "none" \/ (output.op = "Apply" /\ output.calls < input.times)
    /\ \E q \in Orderings(Apply(input.files, input.dbName, input.retention, input.pendingBackups)) :
          output' = [op |-> "Apply",
                     files |-> q,
                     first |-> IF output.op = "none" THEN q ELSE output.first,
                     calls |-> IF output.op = "none" THEN 1 ELSE 2]
    /\ UNCHANGED <<input, programVars, artifactVars>>

\* filterByName(files, dbName)
CallFilterByName ==
    /\ input.op = "filterByName"
    /\ output.op = "none"
    /\ output' = [op |-> "filterByName", files |-> filterByName(input.files, input.dbName)]
    /\ UNCHANGED <<input, programVars, artifactVars>>

\* The file name backup.Run(name, db) generates at the given time.
CallRun ==
    /\ input.op = "Run"
    /\ output.op = "none"
    /\ output' = [op |-> "Run",
                  Filename |-> FileName(input.name, Format(input.day), Extension(input.db))]
    /\ UNCHANGED <<input, programVars, artifactVars>>

\* parseFilename of a generated file name, or of a file name given directly.
CallParseFilename ==
    /\ \/ input.op = "Run" /\ output.op = "Run"
       \/ input.op = "parseFilename" /\ output.op = "none"
    /\ LET filename == IF input.op = "Run" THEN output.Filename ELSE input.filename
           parsed == parseFilename(filename)
       IN  output' = [op |-> "parseFilename", filename |-> filename, name |-> parsed.name,
                      timestamp |-> parsed.timestamp, ok |-> parsed.ok]
    /\ UNCHANGED <<input, programVars, artifactVars>>

EngineNext ==
    \/ CallApply
    \/ CallFilterByName
    \/ CallRun
    \/ CallParseFilename

EngineSpec == EngineInit /\ [][EngineNext]_vars

\* ---------------------------------------------------------------- dump and restore of one artifact
\* backup.Run and backup.Restore step by step, on their own.

\* Bytes of the model.
Byte == {"a", "b"}

\* Contents of a source file, or the output of a dump command: empty, shorter
\* than one buffer of io.Copy, and longer.
Contents == SeqsUpTo(Byte, MaxBytes)

\* Bytes io.Copy moves per Write (32 KiB in the library).
BufSize == 2

\* A file on disk: raw bytes, or the encoding of data in a format; entries is
\* the number of entries of a zip archive, data the content of its first one.
File(format, data, entries) == [format |-> format, data |-> data, entries |-> entries]

RawFile(data) == File("raw", data, 0)

NoWriter == [kind |-> "nil", cleanup |-> FALSE, buffered |-> <<>>]

\* A mutant of newCompressWriter: a compression name that is not known is
\* taken for no compression.
newCompressWriterLenient(compression) ==
    IF compression \in {"gz", "zstd", "xz", "zip"}
    THEN [writer |-> [kind |-> compression, cleanup |-> TRUE, buffered |-> <<>>], err |-> NoError]
    ELSE [writer |-> [kind |-> "none", cleanup |-> FALSE, buffered |-> <<>>], err |-> NoError]

\* newCompressWriter(dst, compression, filename): the writer, whether a
\* cleanup function comes with it, and the error.
newCompressWriter(compression) ==
    IF compression \in {"none", ""}
    THEN [writer |-> [kind |-> "none", cleanup |-> FALSE, buffered |-> <<>>], err |-> NoError]
    ELSE IF compression \in {"gz", "zstd", "xz", "zip"}
    THEN [writer |-> [kind |-> compression, cleanup |-> TRUE, buffered |-> <<>>], err |-> NoError]
    ELSE [writer |-> NoWriter, err |-> "unknown compression type"]

\* writer.Write(p): the uncompressed writer is the file itself; a compressing
\* writer keeps the bytes until it is closed.
WriterWrite(writer, out, p) ==
    IF writer.kind = "none"
    THEN [writer |-> writer, out |-> RawFile(out.data \o p)]
    ELSE [writer |-> [writer EXCEPT !.buffered = @ \o p], out |-> out]

\* The cleanup function: Close of the gzip, zstd or xz writer, or of the zip
\* writer, which writes the encoded stream to the file.  The zstd writer
\* writes nothing at all for empty input.
WriterClose(writer) ==
    IF writer.kind = "gz" THEN File("gz", writer.buffered, 0)
    ELSE IF writer.kind = "zstd"
    THEN IF writer.buffered = <<>> THEN RawFile(<<>>) ELSE File("zst", writer.buffered, 0)
    ELSE IF writer.kind = "xz" THEN File("xz", writer.buffered, 0)
    ELSE File("zip", writer.buffered, 1)

\* strings.HasSuffix(path, "." + ext)
HasSuffix(path, ext) ==
    /\ Len(path) >= 2
    /\ path[Len(path) - 1] = "."
    /\ path[Len(path)] = ext

\* What opening a reader gives: the error of opening it, the error the reader
\* gives when read, and the file the bytes read make up.
Reader(openErr, readErr, content) ==
    [err |-> openErr, readErr |-> readErr, content |-> content]

\* A mutant of zipReader: the first entry is read without a look at the
\* number of entries, and an archive without entries reads as no bytes.
zipReaderUnchecked(file) ==
    IF file.format # "zip" THEN Reader("opening zip file", NoError, RawFile(<<>>))
    ELSE Reader(NoError, NoError, RawFile(file.data))

\* The .zip case of newDecompressReader: zip.OpenReader, the error for an
\* archive without entries, and the reader of the first entry.
zipReader(file) ==
    IF file.format # "zip" THEN Reader("opening zip file", NoError, RawFile(<<>>))
    ELSE IF file.entries = 0 THEN Reader("zip file is empty", NoError, RawFile(<<>>))
    ELSE Reader(NoError, NoError, RawFile(file.data))

\* newDecompressReader(path) on a file with the given content.  The gzip and
\* xz readers read the stream header when they are made, the zstd reader
\* when it is first read.
newDecompressReader(path, file) ==
    IF HasSuffix(path, "gz")
    THEN IF file.format = "gz" THEN Reader(NoError, NoError, RawFile(file.data))
         ELSE Reader("creating gzip reader", NoError, RawFile(<<>>))
    ELSE IF HasSuffix(path, "zst")
    THEN IF file.format = "zst" \/ file = RawFile(<<>>)
         THEN Reader(NoError, NoError, RawFile(file.data))
         ELSE Reader(NoError, "copying file", RawFile(<<>>))
    ELSE IF HasSuffix(path, "xz")
    THEN IF file.format = "xz" THEN Reader(NoError, NoError, RawFile(file.data))
         ELSE Reader("creating xz reader", NoError, RawFile(<<>>))
    ELSE IF HasSuffix(path, "zip") THEN zipReader(file)
    ELSE Reader(NoError, NoError, file)

\* Compression names: the five the configuration allows and one it does not.
Compressions == {"none", "gz", "zstd", "xz", "zip", "lz4"}

\* Databases handed to backup.Run and backup.Restore: file databases of every
\* path, MySQL and PostgreSQL databases, and a kind the program does not know.
DumpDatabases ==
    [Type : {"file"}, Path : Paths, Compression : Compressions]
        \cup [Type : {"mysql", "postgres"}, Path : {<<>>}, Compression : Compressions]
        \cup [Type : {"mongodb"}, Path : {<<>>}, Compression : {"none"}]

\* The temp directory of a run.
TmpDir == <<"/", "tmp", "/", "blobber-1", "/">>

RunJobs == [op : {"Run"}, name : {"mydb"}, db : DumpDatabases, content : Contents]

RunStart ==
    [pc |-> "start", filename |-> <<>>, tmpExists |-> FALSE, out |-> RawFile(<<>>),
     outOpen |-> FALSE, writer |-> NoWriter, copied |-> 0, trace |-> <<>>, err |-> NoError]

IsCommand(db) == db.Type \in {"mysql", "postgres"}

\* A mutant of Deferred: the cleanup function is not deferred, the output file
\* is closed with the encoder still open.
DeferredWithoutCleanup(writer) == "closeOut"

\* Where a dump function goes when its body ends: the deferred cleanup when
\* there is one, then the deferred Close of the output file.
Deferred(writer) == IF writer.cleanup THEN "finalize" ELSE "closeOut"

\* backup.Run up to the switch on db.Type: the temp directory, the file name,
\* and for an unknown type the error.
RunBegin ==
    /\ job.op = "Run"
    /\ run.pc = "start"
    /\ run' = [run EXCEPT
                 !.tmpExists = TRUE,
                 !.filename = FileName(job.name, Format(Now), Extension(job.db)),
                 !.pc = IF job.db.Type = "file" THEN "open"
                        ELSE IF job.db.Type = "mysql" THEN "testConnection"
                        ELSE IF job.db.Type = "postgres" THEN "create"
                        ELSE "returned",
                 !.err = IF job.db.Type \in {"file", "mysql", "postgres"} THEN NoError
                         ELSE "unknown database type"]
    /\ UNCHANGED <<job, rst, ret, programVars, engineVars>>

\* dumpMySQL: TestConnection before anything is written.
TestConnection ==
    /\ run.pc = "testConnection"
    /\ \E ok \in BOOLEAN :
          run' = IF ok THEN [run EXCEPT !.pc = "create"]
                 ELSE [run EXCEPT !.pc = "dumped", !.err = "connection failed"]
    /\ UNCHANGED <<job, rst, ret, programVars, engineVars>>

\* dumpFile: os.Open(db.Path)
OpenSource ==
    /\ run.pc = "open"
    /\ \E ok \in BOOLEAN :
          run' = IF ok THEN [run EXCEPT !.pc = "create"]
                 ELSE [run EXCEPT !.pc = "dumped", !.err = "opening source file"]
    /\ UNCHANGED <<job, rst, ret, programVars, engineVars>>

\* os.Create(outPath) of dumpFile and runDumpCommand.
CreateOutput ==
    /\ run.pc = "create"
    /\ \E ok \in BOOLEAN :
          run' = IF ok
                 THEN [run EXCEPT !.pc = "newWriter", !.out = RawFile(<<>>), !.outOpen = TRUE,
                                  !.trace = Append(@, "create")]
                 ELSE [run EXCEPT !.pc = "dumped", !.err = "creating backup file"]
    /\ UNCHANGED <<job, rst, ret, programVars, engineVars>>

\* The call of newCompressWriter: on an error the function returns through
\* its deferred Close of the output file.
NewWriter ==
    /\ run.pc = "newWriter"
    /\ LET made == newCompressWriter(job.db.Compression)
       IN  run' = IF made.err # NoError
                  THEN [run EXCEPT !.pc = "closeOut", !.err = made.err]
                  ELSE [run EXCEPT !.writer = made.writer,
                                   !.pc = IF IsCommand(job.db) THEN "startCmd" ELSE "copy"]
    /\ UNCHANGED <<job, rst, ret, programVars, engineVars>>

\* runDumpCommand: cmd.StdoutPipe and cmd.Start.
StartCommand ==
    /\ run.pc = "startCmd"
    /\ \E ok \in BOOLEAN :
          run' = IF ok THEN [run EXCEPT !.pc = "copy"]
                 ELSE [run EXCEPT !.pc = Deferred(run.writer), !.err = "starting command"]
    /\ UNCHANGED <<job, rst, ret, programVars, engineVars>>

\* io.Copy(writer, src): one Write of up to BufSize bytes, a read or write
\* error, or the end of the input.
Copy ==
    /\ run.pc = "copy"
    /\ \/ /\ run.copied < Len(job.content)
          /\ LET upto == IF run.copied + BufSize < Len(job.content)
                         THEN run.copied + BufSize ELSE Len(job.content)
                 wrote == WriterWrite(run.writer, run.out,
                                      SubSeq(job.content, run.copied + 1, upto))
             IN  run' = [run EXCEPT !.writer = wrote.writer, !.out = wrote.out,
                                    !.copied = upto, !.trace = Append(@, "write")]
       \/ /\ run.copied < Len(job.content)
          /\ run' = [run EXCEPT !.pc = Deferred(run.writer), !.err = "copying file"]
       \/ /\ run.copied = Len(job.content)
          /\ run' = [run EXCEPT !.pc = IF IsCommand(job.db) THEN "wait"
                                       ELSE Deferred(run.writer)]
    /\ UNCHANGED <<job, rst, ret, programVars, engineVars>>

\* runDumpCommand: cmd.Wait
WaitCommand ==
    /\ run.pc = "wait"
    /\ \E ok \in BOOLEAN :
          run' = [run EXCEPT !.pc = Deferred(run.writer),
                             !.err = IF ok THEN NoError ELSE "command failed"]
    /\ UNCHANGED <<job, rst, ret, programVars, engineVars>>

\* The deferred cleanup(): the encoder is closed.
Finalize ==
    /\ run.pc = "finalize"
    /\ run' = [run EXCEPT !.out = WriterClose(run.writer), !.pc = "closeOut",
                          !.trace = Append(@, "finalize")]
    /\ UNCHANGED <<job, rst, ret, programVars, engineVars>>

\* The deferred Close of the output file (and, in dumpFile, of the source).
CloseOutput ==
    /\ run.pc = "closeOut"
    /\ run' = [run EXCEPT !.outOpen = FALSE, !.pc = "dumped", !.trace = Append(@, "close")]
    /\ UNCHANGED <<job, rst, ret, programVars, engineVars>>

\* backup.Run after the dump function: on an error the temp directory is
\* removed and the error returned; otherwise the Result with the path.
RunReturn ==
    /\ run.pc = "dumped"
    /\ \E statOk \in BOOLEAN :
          run' = IF run.err # NoError
                 THEN [run EXCEPT !.pc = "returned", !.tmpExists = FALSE]
                 ELSE IF ~statOk
                 THEN [run EXCEPT !.pc = "returned", !.tmpExists = FALSE,
                                  !.err = "stat backup file"]
                 ELSE [run EXCEPT !.pc = "returned"]
    /\ UNCHANGED <<job, rst, ret, programVars, engineVars>>

\* ---------------------------------------------------------------- restore
\* The artifact a restore is asked for: its file name and what the file holds.
Artifact(name, file) == [name |-> name, file |-> file]

\* Artifacts at a destination or on the local disk: plain, of every codec, a
\* file named .gz that is no gzip stream, and zip archives with no entry and
\* with two.
Artifacts ==
    LET named(ext) == FileName("mydb", Format(Now - 1), <<".", "sql">> \o ext)
        data == <<"a", "b">>
    IN  { Artifact(named(<<>>), RawFile(data)),
          Artifact(named(<<".", "gz">>), File("gz", data, 0)),
          Artifact(named(<<".", "gz">>), RawFile(data)),
          Artifact(named(<<".", "zst">>), File("zst", data, 0)),
          Artifact(named(<<".", "xz">>), File("xz", data, 0)),
          Artifact(named(<<".", "zip">>), File("zip", <<>>, 0)),
          Artifact(named(<<".", "zip">>), File("zip", data, 1)),
          Artifact(named(<<".", "zip">>), File("zip", data, 2)) }

\* Databases a restore is run for: a file database, a MySQL database, and one
\* of a kind the program does not know.
RestoreDatabases ==
    { [Type |-> "file", Path |-> <<"/", "data", "/", "app", ".", "db">>, Compression |-> "none"],
      [Type |-> "mysql", Path |-> <<>>, Compression |-> "gz"],
      [Type |-> "mongodb", Path |-> <<>>, Compression |-> "none"] }

\* Restores: blobber restore <db_name> <backup_file> [--local], with a name
\* that may not be configured, and the restore of the TUI for a configured
\* database; content is what the destination file holds before.
RestoreJobs ==
    [op : {"Restore"}, frontend : {"cli"}, local : BOOLEAN, name : {"mydb", UnknownName},
     db : RestoreDatabases, artifact : Artifacts, content : {<<"b">>}]
        \cup [op : {"Restore"}, frontend : {"tui"}, local : BOOLEAN, name : {"mydb"},
              db : RestoreDatabases, artifact : Artifacts, content : {<<"b">>}]

\* State of a restore that is about to call backup.Restore(db, path) on a
\* file of the given content.
Restoring(r, path, file) ==
    [r EXCEPT !.pc = "restore", !.path = path, !.file = file,
              !.calls = Append(@, "Restore")]

RestoreStart ==
    [pc |-> "begin", path |-> <<>>, file |-> RawFile(<<>>), dst |-> RawFile(<<>>),
     created |-> FALSE, fed |-> RawFile(<<>>), invoked |-> FALSE, calls |-> <<>>,
     tmpExists |-> FALSE, err |-> NoError, restoreStep |-> "idle", presses |-> 0]

\* backup.Restore of the artifact backup.Run has just returned, for the same
\* database, with the source file still in place.
RestoreOfArtifact ==
    /\ job.op = "Run"
    /\ run.pc = "returned"
    /\ run.err = NoError
    /\ rst.pc = "none"
    /\ rst' = Restoring([RestoreStart EXCEPT !.dst = RawFile(job.content)],
                        TmpDir \o run.filename, run.out)
    /\ UNCHANGED <<job, run, ret, programVars, engineVars>>

\* runRestore up to the download: the database is looked up; a local file is
\* checked with os.Stat and restored from where it is.
runRestore ==
    /\ job.op = "Restore"
    /\ job.frontend = "cli"
    /\ rst.pc = "begin"
    /\ IF job.name = UnknownName
       THEN rst' = [rst EXCEPT !.pc = "exit", !.err = "not found in config"]
       ELSE IF job.local
       THEN \E ok \in BOOLEAN :
               rst' = IF ok THEN Restoring(rst, job.artifact.name, job.artifact.file)
                      ELSE [rst EXCEPT !.pc = "exit", !.err = "local file not found"]
       ELSE rst' = [rst EXCEPT !.pc = "download", !.tmpExists = TRUE]
    /\ UNCHANGED <<job, run, ret, programVars, engineVars>>

\* storage.Download in runRestore.
StorageDownload ==
    /\ rst.pc = "download"
    /\ \E ok \in BOOLEAN :
          rst' = IF ok
                 THEN Restoring([rst EXCEPT !.calls = Append(@, "Download")],
                                TmpDir \o job.artifact.name, job.artifact.file)
                 ELSE [rst EXCEPT !.calls = Append(@, "DownloadFailed"),
                                  !.pc = "exit", !.tmpExists = FALSE,
                                  !.err = "downloading backup"]
    /\ UNCHANGED <<job, run, ret, programVars, engineVars>>

\* A mutant of startRestore: the guard against double submission is missing.
startRestoreUnguarded ==
    /\ job.op = "Restore"
    /\ job.frontend = "tui"
    /\ rst.pc = "begin" \/ rst.restoreStep # "idle"
    /\ rst.presses < MaxPresses
    /\ LET r == [rst EXCEPT !.presses = @ + 1]
       IN  IF job.local
           THEN rst' = Restoring([r EXCEPT !.restoreStep = "restoring"],
                                 job.artifact.name, job.artifact.file)
           ELSE \E ok \in BOOLEAN :
                   rst' = IF ok THEN [r EXCEPT !.pc = "downloading", !.tmpExists = TRUE,
                                               !.restoreStep = "downloading"]
                          ELSE [r EXCEPT !.pc = "downloadProgressMsg",
                                         !.restoreStep = "downloading",
                                         !.err = "creating temp dir"]
    /\ UNCHANGED <<job, run, ret, programVars, engineVars>>

\* startRestore of the TUI, called when the restore is confirmed: while a
\* restore step is in progress it returns the model as it is; otherwise a
\* local restore goes straight to the restoring step and a remote one starts
\* the download (startDownload), whose temp directory may fail to be created.
\* presses counts the submissions.
startRestore ==
    /\ job.op = "Restore"
    /\ job.frontend = "tui"
    /\ rst.pc = "begin" \/ rst.restoreStep # "idle"
    /\ rst.presses < MaxPresses
    /\ LET r == [rst EXCEPT !.presses = @ + 1]
       IN  IF rst.restoreStep # "idle"
           THEN rst' = r
           ELSE IF job.local
           THEN rst' = Restoring([r EXCEPT !.restoreStep = "restoring"],
                                 job.artifact.name, job.artifact.file)
           ELSE \E ok \in BOOLEAN :
                   rst' = IF ok THEN [r EXCEPT !.pc = "downloading", !.tmpExists = TRUE,
                                               !.restoreStep = "downloading"]
                          ELSE [r EXCEPT !.pc = "downloadProgressMsg",
                                         !.restoreStep = "downloading",
                                         !.err = "creating temp dir"]
    /\ UNCHANGED <<job, run, ret, programVars, engineVars>>

\* The storage.DownloadWithProgress goroutine and waitForDownloadProgress
\* reading its final progress value: a success comes back as the download
\* step's restoreStepDoneMsg, a failure as a downloadProgressMsg with the error.
DownloadWithProgress ==
    /\ rst.pc = "downloading"
    /\ \E ok \in BOOLEAN :
          rst' = IF ok
                 THEN [rst EXCEPT !.calls = Append(@, "Download"), !.pc = "restoreStepDoneMsg"]
                 ELSE [rst EXCEPT !.calls = Append(@, "DownloadFailed"),
                                  !.pc = "downloadProgressMsg", !.err = "download failed"]
    /\ UNCHANGED <<job, run, ret, programVars, engineVars>>

\* A mutant of handleDownloadProgress: the failed download is taken for a
\* finished one and the restoring step is started.
handleDownloadProgressGoesOn ==
    /\ rst.pc = "downloadProgressMsg"
    /\ rst' = Restoring(rst, TmpDir \o job.artifact.name, job.artifact.file)
    /\ UNCHANGED <<job, run, ret, programVars, engineVars>>

\* handleDownloadProgress with msg.err set: m.err, the done view, the restore
\* step idle again.
handleDownloadProgress ==
    /\ rst.pc = "downloadProgressMsg"
    /\ rst' = [rst EXCEPT !.pc = "exit", !.restoreStep = "idle"]
    /\ UNCHANGED <<job, run, ret, programVars, engineVars>>

\* handleRestoreStepDone for the download step: the restoring step is next,
\* and runRestoreStep calls backup.Restore on the downloaded path.
handleRestoreStepDone ==
    /\ rst.pc = "restoreStepDoneMsg"
    /\ rst' = Restoring([rst EXCEPT !.restoreStep = "restoring"],
                        TmpDir \o job.artifact.name, job.artifact.file)
    /\ UNCHANGED <<job, run, ret, programVars, engineVars>>

\* The database a restore is for.
RestoreDB == job.db

\* backup.Restore: the switch on db.Type.
RestoreBegin ==
    /\ rst.pc = "restore"
    /\ rst' = IF RestoreDB.Type \in {"file", "mysql", "postgres"}
              THEN [rst EXCEPT !.pc = "openReader"]
              ELSE [rst EXCEPT !.pc = "done", !.err = "unknown database type"]
    /\ UNCHANGED <<job, run, ret, programVars, engineVars>>

\* newDecompressReader in restoreFile and runRestoreCommand: on an error the
\* function returns before it has touched the destination.
OpenReader ==
    /\ rst.pc = "openReader"
    /\ LET opened == newDecompressReader(rst.path, rst.file)
       IN  rst' = IF opened.err # NoError
                  THEN [rst EXCEPT !.pc = "done", !.err = opened.err]
                  ELSE [rst EXCEPT !.pc = IF RestoreDB.Type = "file" THEN "createDst"
                                          ELSE "runCmd"]
    /\ UNCHANGED <<job, run, ret, programVars, engineVars>>

\* restoreFile: os.Create(db.Path), which empties the file, and io.Copy from
\* the reader.
RestoreFile ==
    /\ rst.pc = "createDst"
    /\ LET opened == newDecompressReader(rst.path, rst.file)
       IN  \E ok \in BOOLEAN :
              rst' = IF ~ok
                     THEN [rst EXCEPT !.pc = "done", !.err = "creating destination file"]
                     ELSE IF opened.readErr # NoError
                     THEN [rst EXCEPT !.pc = "done", !.created = TRUE, !.invoked = TRUE,
                                      !.dst = RawFile(<<>>),
                                      !.err = opened.readErr]
                     ELSE [rst EXCEPT !.pc = "done", !.created = TRUE, !.invoked = TRUE,
                                      !.dst = opened.content]
    /\ UNCHANGED <<job, run, ret, programVars, engineVars>>

\* runRestoreCommand: cmd.Run of mysql or psql with the reader as its input.
RunRestoreCommand ==
    /\ rst.pc = "runCmd"
    /\ LET opened == newDecompressReader(rst.path, rst.file)
       IN  \E ok \in BOOLEAN :
              rst' = [rst EXCEPT
                        !.pc = "done",
                        !.invoked = TRUE,
                        !.fed = opened.content,
                        !.err = IF ok /\ opened.readErr = NoError THEN NoError
                                ELSE "restore command failed"]
    /\ UNCHANGED <<job, run, ret, programVars, engineVars>>

\* The return of backup.Restore to its caller: runRestore returns (its
\* deferred os.RemoveAll removes the temp directory), the TUI handles the
\* restoring step's restoreStepDoneMsg (handleRestoreStepDone with an error
\* or with done set), shows the done view and sets the restore step idle.
RestoreReturn ==
    /\ rst.pc = "done"
    /\ rst' = [rst EXCEPT !.pc = "exit",
                          !.restoreStep = "idle",
                          !.tmpExists = IF job.op = "Restore" /\ job.frontend = "cli"
                                        THEN FALSE ELSE @]
    /\ UNCHANGED <<job, run, ret, programVars, engineVars>>

DumpRestoreInit ==
    /\ frontend = "cli"
    /\ args = <<>>
    /\ selected = {}
    /\ mainPc = "validate"
    /\ dryRun = FALSE
    /\ skipRetention = FALSE
    /\ remote = {}
    /\ NothingStarted
    /\ input = NoCall
    /\ output = NoCall
    /\ job \in RunJobs \cup RestoreJobs
    /\ run = IF job.op = "Run" THEN RunStart ELSE NotStarted
    /\ rst = IF job.op = "Restore" THEN [RestoreStart EXCEPT !.dst = RawFile(job.content)]
             ELSE NotStarted
    /\ ret = NotStarted

DumpRestoreNext ==
    \/ RunBegin
    \/ TestConnection
    \/ OpenSource
    \/ CreateOutput
    \/ NewWriter
    \/ StartCommand
    \/ Copy
    \/ WaitCommand
    \/ Finalize
    \/ CloseOutput
    \/ RunReturn
    \/ RestoreOfArtifact
    \/ runRestore
    \/ StorageDownload
    \/ startRestore
    \/ DownloadWithProgress
    \/ handleDownloadProgress
    \/ handleRestoreStepDone
    \/ RestoreBegin
    \/ OpenReader
    \/ RestoreFile
    \/ RunRestoreCommand
    \/ RestoreReturn

DumpRestoreSpec == DumpRestoreInit /\ [][DumpRestoreNext]_vars

\* ---------------------------------------------------------------- retention around an upload
\* The retention pre-check and one database's Upload and Retention steps, for
\* a database and a peer database that share one destination, with the
\* database's rule set, the size of its artifact and the backups the
\* destination holds beforehand varied.  The dump is taken to have succeeded,
\* DryRun and SkipRetention are off and the plan, where one is shown, is
\* confirmed.

\* The peer keeps its newest backup.
PeerRetention == [KeepLast |-> 1, KeepDays |-> 0, MaxSizeMB |-> 0]

\* A backup of the database made age days ago.
Backup(name, age, size) ==
    RemoteFile(FileName(name, Format(Now - age), <<".", "sql">>), size, Now - age)

\* Backups the destination can hold beforehand: of the database, 1, 3, ...
\* days old, the newest the largest; of the peer, one day old.
OldPool(name, peer) ==
    {Backup(name, 2 * i - 1, IF i = 1 THEN 3 ELSE 1) : i \in 1..MaxOld}
        \cup {Backup(peer, 1, ArtifactSize)}

RetentionJobs ==
    UNION {[op : {"Retention"}, frontend : {"cli", "tui"}, name : {a}, peer : {b},
            retention : RuleSets, size : {1, 5}, old : SUBSET OldPool(a, b)] :
              <<a, b>> \in {p \in ValidNames \X ValidNames : p[1] # p[2]}}

\* cfg.Databases[n].Retention
RetentionOf(n) == IF n = job.name THEN job.retention ELSE PeerRetention

RuleEnabled(r) == r.KeepLast > 0 \/ r.KeepDays > 0 \/ r.MaxSizeMB > 0

\* The databases of the run with a rule enabled, in the order of the queue.
Ruled ==
    LET enabled(n) == RuleEnabled(RetentionOf(n))
    IN  SelectSeq(<<job.name, job.peer>>, enabled)

\* The artifact the pipeline of n uploads.
Uploaded(n) == Backup(n, 0, IF n = job.name THEN job.size ELSE ArtifactSize)

\* storage.Upload of the file f.
UploadFile(files, f) == {g \in files : g.Name # f.Name} \cup {f}

RetentionStart ==
    [pc |-> "precheck", remote |-> job.old, plan |-> [n \in {} |-> <<>>], listed |-> {},
     calls |-> <<>>, toDelete |-> <<>>, deleted |-> 0, message |-> "", err |-> NoError,
     done |-> FALSE, peerUploaded |-> FALSE]

\* A mutant of PlanOf: every database listed gets an entry.
PlanOfAll(computed) == computed

\* "if len(toDelete) > 0 { plan[name] = toDelete }"
PlanOf(computed) ==
    [n \in {m \in DOMAIN computed : Len(computed[m]) > 0} |-> computed[n]]

\* The storage.List calls of a pre-check: one for each database with a rule.
PreCheckCalls(listed) == [i \in 1..Len(Ruled) |-> Call("List", Ruled[i] \in listed, NoFile)]

\* orchestrator.PreCheckRetention: a database without a rule or whose listing
\* fails is passed over; Apply is called with four arguments.
PreCheckRetention ==
    /\ job.op = "Retention"
    /\ job.frontend = "cli"
    /\ ret.pc = "precheck"
    /\ \E listed \in SUBSET Range(Ruled) :
          ret' = [ret EXCEPT
                    !.pc = "upload",
                    !.listed = listed,
                    !.calls = @ \o PreCheckCalls(listed),
                    !.plan = PlanOf([n \in listed |->
                                       ApplyFirstRule(List(ret.remote), n, RetentionOf(n))])]
    /\ UNCHANGED <<job, run, rst, programVars, engineVars>>

\* runRetentionPreCheck of the TUI: the same loop, Apply called with
\* pendingBackups = 1.
runRetentionPreCheck ==
    /\ job.op = "Retention"
    /\ job.frontend = "tui"
    /\ ret.pc = "precheck"
    /\ \E listed \in SUBSET Range(Ruled) :
         \E computed \in [listed -> UNION {Orderings(Apply(List(ret.remote), n, RetentionOf(n), 1)) :
                                             n \in listed}] :
            /\ \A n \in listed :
                  computed[n] \in Orderings(Apply(List(ret.remote), n, RetentionOf(n), 1))
            /\ ret' = [ret EXCEPT !.pc = "upload",
                                  !.listed = listed,
                                  !.calls = @ \o PreCheckCalls(listed),
                                  !.plan = PlanOf(computed)]
    /\ UNCHANGED <<job, run, rst, programVars, engineVars>>

\* The Upload step of the database's pipeline: storage.Upload of the
\* artifact; a failure ends the pipeline.
UploadArtifact ==
    /\ ret.pc = "upload"
    /\ \E ok \in BOOLEAN :
          ret' = IF ok
                 THEN [ret EXCEPT !.pc = "retention",
                                  !.remote = UploadFile(@, Uploaded(job.name)),
                                  !.calls = Append(@, Call("Upload", TRUE, Uploaded(job.name)))]
                 ELSE [ret EXCEPT !.pc = "returned",
                                  !.calls = Append(@, Call("Upload", FALSE, Uploaded(job.name))),
                                  !.err = "upload failed",
                                  !.done = TRUE]
    /\ UNCHANGED <<job, run, rst, programVars, engineVars>>

\* The peer's pipeline, started with the database's after the pre-check,
\* uploads its artifact to the shared destination.
PeerUpload ==
    /\ ret.pc \in {"upload", "retention", "delete"}
    /\ ~ret.peerUploaded
    /\ ret' = [ret EXCEPT !.remote = UploadFile(@, Uploaded(job.peer)),
                          !.peerUploaded = TRUE]
    /\ UNCHANGED <<job, run, rst, programVars, engineVars>>

\* The state of a pipeline whose Retention step has ended with the message.
Ended(r, message) == [r EXCEPT !.pc = "returned", !.message = message, !.done = TRUE]

\* The Retention step of runSingleBackup up to its delete loop: the
\* destination is listed again and Apply called on that listing.
RetentionStep ==
    /\ job.frontend = "cli"
    /\ ret.pc = "retention"
    /\ IF ~RuleEnabled(job.retention)
       THEN ret' = Ended(ret, "No retention policy")
       ELSE \E ok \in BOOLEAN :
              LET listing == [ret EXCEPT !.calls = Append(@, Call("List", ok, NoFile))]
                  del == ApplyFirstRule(List(ret.remote), job.name, job.retention)
              IN  ret' = IF ~ok THEN [Ended(listing, "") EXCEPT !.err = "list failed"]
                         ELSE IF Len(del) > 0
                         THEN [listing EXCEPT !.pc = "delete", !.toDelete = del]
                         ELSE Ended(listing, "No old backups to delete")
    /\ UNCHANGED <<job, run, rst, programVars, engineVars>>

\* The retention step of runBackupStepFor up to its delete loop: the files of
\* the plan entry are the ones to delete.
RetentionStepPlanned ==
    /\ job.frontend = "tui"
    /\ ret.pc = "retention"
    /\ ret' = IF job.name \in DOMAIN ret.plan
              THEN [ret EXCEPT !.pc = "delete", !.toDelete = ret.plan[job.name]]
              ELSE IF RuleEnabled(job.retention)
              THEN Ended(ret, "No old backups to delete")
              ELSE Ended(ret, "No retention policy")
    /\ UNCHANGED <<job, run, rst, programVars, engineVars>>

\* One iteration of the delete loop, of either front end; the message with
\* the count follows the last.
DeleteOld ==
    /\ ret.pc = "delete"
    /\ LET f == Head(ret.toDelete)
       IN  \E ok \in {b \in BOOLEAN : b => Present(ret.remote, f)} :
             LET next == [ret EXCEPT !.remote = IF ok THEN Delete(@, f) ELSE @,
                                     !.deleted = IF ok THEN @ + 1 ELSE @,
                                     !.calls = Append(@, Call("Delete", ok, f)),
                                     !.toDelete = Tail(@)]
             IN  ret' = IF Len(ret.toDelete) > 1 THEN next
                        ELSE Ended(next, "Deleted old backup(s)")
    /\ UNCHANGED <<job, run, rst, programVars, engineVars>>

RetentionInit ==
    /\ frontend = "cli"
    /\ args = <<>>
    /\ selected = {}
    /\ mainPc = "validate"
    /\ dryRun = FALSE
    /\ skipRetention = FALSE
    /\ remote = {}
    /\ NothingStarted
    /\ input = NoCall
    /\ output = NoCall
    /\ job \in RetentionJobs
    /\ run = NotStarted
    /\ rst = NotStarted
    /\ ret = RetentionStart

RetentionNext ==
    \/ PreCheckRetention
    \/ runRetentionPreCheck
    \/ UploadArtifact
    \/ PeerUpload
    \/ RetentionStep
    \/ RetentionStepPlanned
    \/ DeleteOld

RetentionSpec == RetentionInit /\ [][RetentionNext]_vars

\* ---------------------------------------------------------------- properties
Last(q) == q[Len(q)]

CallsOf(db, op) == {i \in 1..Len(calls[db]) : calls[db][i].op = op}

Launched(db) == pc[db] # "idle"

Returned(db) == pc[db] = "returned"

\* C1: every storage Delete of a database's pipeline comes after an Upload of
\* that pipeline that returned success; a pipeline whose Upload failed, was
\* skipped or has not returned has issued no Delete.
C1_DeleteOnlyAfterUploadSucceeded ==
    \A db \in DBNames :
        \A i \in CallsOf(db, "Delete") :
            \E j \in CallsOf(db, "Upload") : j < i /\ calls[db][j].ok

\* A pipeline has issued a Delete.
C1_Witness ==
    \E db \in DBNames : CallsOf(db, "Delete") # {}

StepOfCall(op) ==
    IF op = "Run" THEN "dumping" ELSE IF op = "Upload" THEN "uploading" ELSE "retention"

\* A failed dump, upload or listing of a pipeline.
FailedCalls(db) ==
    {i \in 1..Len(calls[db]) : ~calls[db][i].ok /\ calls[db][i].op \in {"Run", "Upload", "List"}}

\* C2: a failed dump, upload or retention listing is the pipeline's last
\* collaborator call (no Upload, List or Delete follows it), and the
\* orchestrator's pipeline ends with the Done event of that step carrying the
\* error, sent right after the step's start event.
C2_FailureSkipsRemainingSteps ==
    \A db \in DBNames :
        \A i \in FailedCalls(db) :
            /\ i = Len(calls[db])
            /\ frontend = "cli" /\ Returned(db) =>
                 LET n == Len(sent[db])
                     e == sent[db][n]
                     before == sent[db][n - 1]
                 IN  /\ e.Done /\ e.Error # NoError
                     /\ e.Step = StepOfCall(calls[db][i].op)
                     /\ before.Step = e.Step /\ before.Message = "" /\ before.Error = NoError
                     /\ \A k \in 1..(n - 1) : ~sent[db][k].Done /\ sent[db][k].Error = NoError

\* A pipeline has returned after its retention listing failed.
C2_Witness ==
    \E db \in DBNames :
        /\ frontend = "cli"
        /\ Returned(db)
        /\ \E i \in FailedCalls(db) : calls[db][i].op = "List"

IsPrefix(p, q) == Len(p) <= Len(q) /\ \A i \in 1..Len(p) : p[i] = q[i]

UploadCompleted(e) ==
    e.Step = "uploading" /\ e.Error = NoError /\ e.Message # ""

\* The events of one database are in pipeline order.
InPipelineOrder(q) ==
    \A i \in 1..Len(q) :
        /\ q[i].Step = "dumping" => \A j \in 1..(i - 1) : q[j].Step = "dumping"
        /\ q[i].Step = "uploading" =>
             /\ \A j \in 1..(i - 1) : q[j].Step \in {"dumping", "uploading"}
             /\ \E j \in 1..(i - 1) : q[j].Step = "dumping" /\ q[j].Message = "Dumped"
        /\ q[i].Step = "retention" => \E j \in 1..(i - 1) : UploadCompleted(q[j])
        /\ q[i].Done => i = Len(q)

\* C3: the events of one database reach the reader of the shared stream in
\* the order they were sent, Dumping before Uploading before Retention: no
\* Uploading event before the Dumped event, no Retention event before the
\* upload's completion (or skipped) event, and the Done event last; a
\* database that finished without error went through all three steps.
C3_EventsInPipelineOrder ==
    \A db \in DBNames :
        /\ IsPrefix(received[db], sent[db])
        /\ InPipelineOrder(received[db])
        /\ frontend = "cli" /\ states[db].done /\ ~states[db].hasError =>
             LET q == received[db]
             IN  /\ q[1].Step = "dumping" /\ q[1].Message = ""
                 /\ \E i \in 1..Len(q) : UploadCompleted(q[i])
                 /\ Last(q).Step = "retention" /\ Last(q).Done

\* A run of at least two databases ended with every database successful and
\* really uploaded.
C3_Witness ==
    /\ mainPc = "exit"
    /\ failed = 0
    /\ Len(databases) >= 2
    /\ ~dryRun

\* C4: the stream is closed only after RunBackups has returned with every
\* launched pipeline returned, no pipeline sends on the closed stream, and
\* when the reader has seen the closure it has received every event sent.
C4_ClosedAfterAllDone ==
    /\ ~panicked
    /\ progressClosed =>
         /\ bgPc \in {"closedProgress", "finished"}
         /\ \A db \in Range(databases) : Returned(db)
    /\ mainPc \in {"waitDone", "exit"} /\ cmdErr = NoError =>
         /\ progressClosed
         /\ \A db \in DBNames : received[db] = sent[db]

\* The reader has seen the closure of a run in which one pipeline alone sent
\* more events than the stream holds.
C4_Witness ==
    /\ mainPc = "waitDone"
    /\ \E db \in DBNames : Len(sent[db]) > ChanCap

\* The command was rejected, or the run ended: every pipeline returned,
\* RunBackups returned and both channels closed.
RunOver ==
    \/ mainPc = "exit" /\ cmdErr # NoError
    \/ /\ \A db \in Range(databases) : Returned(db)
       /\ bgPc = "finished"
       /\ progressClosed

\* C5: with the reader receiving until the stream is closed, every run of
\* the backup command eventually has all its pipelines returned, RunBackups
\* returned and the stream closed, also when the events outnumber the
\* stream's capacity.
C5_RunTerminates == (frontend = "cli") => <>RunOver

SendPositions ==
    {"sendDumping", "sendDumpError", "sendDumped", "sendUploadSkipped", "sendUploading",
     "sendUploadError", "sendSaved", "sendRetentionSkipped", "sendRetention",
     "sendListError", "sendDeleted", "sendNoOld", "sendNoPolicy"}

\* Every launched pipeline is blocked sending on the full stream.
C5_Witness ==
    /\ Len(progress) = ChanCap
    /\ Len(databases) >= 2
    /\ \A db \in Range(databases) : pc[db] \in SendPositions

\* The events a pipeline has sent once it has acted on the outcomes of its own
\* calls so far, as a function of those outcomes and the run's options only.
ExpectedEvents(db) ==
    LET c == calls[db]
        start(step) == Event(db, step, "", NoError, FALSE, FALSE)
        okDeletes == Cardinality({i \in CallsOf(db, "Delete") : c[i].ok})
        dumping == <<start("dumping")>>
        dumped == Append(dumping, Event(db, "dumping", "Dumped", NoError, FALSE, FALSE))
        skippedUpload ==
            Append(dumped,
                   [Event(db, "uploading", "Upload skipped (dry-run), file at", NoError, TRUE, FALSE)
                      EXCEPT !.path = ArtifactPath(db)])
        uploading == Append(dumped, start("uploading"))
        saved == Append(uploading, Event(db, "uploading", "Saved to", NoError, FALSE, FALSE))
        retention == Append(saved, start("retention"))
    IN  IF c = <<>> THEN dumping
        ELSE IF ~c[1].ok
        THEN Append(dumping, Event(db, "dumping", "", "dump failed", FALSE, TRUE))
        ELSE IF dryRun
        THEN Append(skippedUpload,
                    Event(db, "retention", "Retention skipped (dry-run)", NoError, TRUE, TRUE))
        ELSE IF Len(c) < 2 THEN uploading
        ELSE IF ~c[2].ok
        THEN Append(uploading, Event(db, "uploading", "", "upload failed", FALSE, TRUE))
        ELSE IF skipRetention
        THEN Append(saved, Event(db, "retention", "Skipped (--skip-retention)", NoError, TRUE, TRUE))
        ELSE IF ~HasRetention(db)
        THEN Append(saved, Event(db, "retention", "No retention policy", NoError, TRUE, TRUE))
        ELSE IF Len(c) < 3 THEN retention
        ELSE IF ~c[3].ok
        THEN Append(retention, Event(db, "retention", "", "list failed", FALSE, TRUE))
        ELSE IF toDelete[db] # <<>> THEN retention
        ELSE IF Len(c) = 3
        THEN Append(retention,
                    Event(db, "retention", "No old backups to delete", NoError, TRUE, TRUE))
        ELSE Append(retention,
                    [Event(db, "retention", "Deleted old backup(s)", NoError, FALSE, TRUE)
                       EXCEPT !.n = okDeletes])

\* The Success and Error of a returned pipeline's result, from its own calls.
ExpectedSuccess(db) ==
    \A i \in 1..Len(calls[db]) : calls[db][i].op \in {"Run", "Upload"} => calls[db][i].ok

ExpectedError(db) ==
    LET c == calls[db]
    IN  IF Len(c) >= 1 /\ ~c[1].ok THEN "dump failed"
        ELSE IF Len(c) >= 2 /\ ~c[2].ok THEN "upload failed"
        ELSE IF Len(c) >= 3 /\ ~c[3].ok THEN "list failed"
        ELSE NoError

Isolated ==
    \A db \in DBNames :
        frontend = "cli" =>
        /\ IsPrefix(sent[db], ExpectedEvents(db))
        /\ Returned(db) =>
             /\ sent[db] = ExpectedEvents(db)
             /\ Last(sent[db]).Done
             /\ results[db].DBName = db
             /\ results[db].Success = ExpectedSuccess(db)
             /\ results[db].Error = ExpectedError(db)

\* C6: whatever happens to the other databases, every pipeline launched by
\* RunBackups returns after its Done event, and the events it sends and the
\* result it returns are those determined by the outcomes of its own dump and
\* storage calls.
C6_PipelinesIsolated ==
    /\ []Isolated
    /\ (frontend = "cli" /\ \E db \in DBNames : Launched(db))
         ~> (\A db \in Range(databases) : Returned(db))

\* One pipeline returned failed, another returned successful and error-free.
C6_Witness ==
    \E a, b \in DBNames :
        /\ a # b
        /\ frontend = "cli"
        /\ Returned(a) /\ ~results[a].Success
        /\ Returned(b) /\ results[b].Success /\ results[b].Error = NoError
        /\ ~dryRun

DeletedFiles(db) == {calls[db][i].file : i \in CallsOf(db, "Delete")}

\* C7: without DryRun and SkipRetention, a pipeline that has uploaded its
\* artifact and returned, with every call successful, has deleted exactly the
\* files of its database's RetentionPlan entry, and none when the plan has no
\* entry for it.
C7_DeletesExactlyThePlan ==
    \A db \in DBNames :
        /\ ~dryRun /\ ~skipRetention
        /\ Returned(db)
        /\ CallsOf(db, "Upload") # {}
        /\ \A i \in 1..Len(calls[db]) : calls[db][i].ok
        => DeletedFiles(db) = Range(retentionPlan[db])

\* C8: without DryRun, the temporary directory of a pipeline that
\* runSingleBackup has returned from no longer exists, whichever way the
\* pipeline ended.
C8_TempRemovedOnEveryExit ==
    \A db \in DBNames : frontend = "cli" /\ ~dryRun /\ Returned(db) => ~tmpExists[db]

\* A pipeline returned after a dump and an upload that succeeded and a Delete
\* that failed.
C8_Witness ==
    \E db \in DBNames :
        /\ frontend = "cli"
        /\ ~dryRun
        /\ Returned(db)
        /\ \E i \in CallsOf(db, "Delete") : ~calls[db][i].ok

RunSucceeded(db) == Len(calls[db]) >= 1 /\ calls[db][1].ok

\* C9: under DryRun the artifact of a successful dump exists from then on,
\* also after the pipeline has returned, and the returned pipeline has named
\* its path in the skipped Uploading event.
C9_DryRunKeepsArtifact ==
    \A db \in DBNames :
        dryRun /\ RunSucceeded(db) =>
            /\ tmpExists[db]
            /\ Returned(db) =>
                 \E i \in 1..Len(sent[db]) :
                     /\ sent[db][i].Step = "uploading"
                     /\ sent[db][i].Skipped
                     /\ sent[db][i].path = ArtifactPath(db)

\* A DryRun pipeline has returned after a successful dump.
C9_Witness ==
    \E db \in DBNames : dryRun /\ Returned(db) /\ RunSucceeded(db)

\* C10: under DryRun no step changes the remote files, the pre-check lists
\* nothing, and the only collaborator call a pipeline makes is backup.Run.
C10_DryRunLeavesRemoteAlone ==
    [][dryRun =>
         /\ remote' = remote
         /\ preLists' = 0
         /\ \A db \in DBNames :
              \A i \in 1..Len(calls'[db]) : calls'[db][i].op = "Run"]_vars

\* A DryRun run over a non-empty destination ended with every pipeline
\* returned after a successful dump.
C10_Witness ==
    /\ dryRun
    /\ mainPc \in {"exit", "allBackupsDone"}
    /\ remote # {}
    /\ Len(databases) >= 2
    /\ \A db \in Range(databases) : Returned(db) /\ RunSucceeded(db)

RetentionEvents(db) == {i \in 1..Len(sent[db]) : sent[db][i].Step = "retention"}

\* C11: under DryRun or SkipRetention a pipeline makes no List and no Delete
\* call, every Retention event it emits has the skipped flag, it never emits
\* two, and once it has returned after a completed (or skipped) upload it has
\* emitted exactly one.
C11_RetentionSkippedOnce ==
    \A db \in DBNames :
        dryRun \/ skipRetention =>
            /\ CallsOf(db, "List") = {}
            /\ CallsOf(db, "Delete") = {}
            /\ Cardinality(RetentionEvents(db)) <= 1
            /\ \A i \in RetentionEvents(db) : sent[db][i].Skipped
            /\ Returned(db) /\ (\E i \in 1..Len(sent[db]) : UploadCompleted(sent[db][i]))
                 => Cardinality(RetentionEvents(db)) = 1

\* A pipeline has uploaded its artifact under SkipRetention and returned.
C11_Witness ==
    \E db \in DBNames :
        /\ skipRetention /\ ~dryRun
        /\ HasRetention(db)
        /\ Returned(db)
        /\ \E i \in CallsOf(db, "Upload") : calls[db][i].ok

\* ---------------------------------------------------------------- retention engine properties
\* The rule set with one rule left enabled.
Only(rule, retention) ==
    [KeepLast |-> IF rule = "KeepLast" THEN retention.KeepLast ELSE 0,
     KeepDays |-> IF rule = "KeepDays" THEN retention.KeepDays ELSE 0,
     MaxSizeMB |-> IF rule = "MaxSizeMB" THEN retention.MaxSizeMB ELSE 0]

\* What Apply returns for the call's listing under one rule of its rule set.
RuleAlone(rule) ==
    Apply(input.files, input.dbName, Only(rule, input.retention), input.pendingBackups)

Enabled(retention) ==
    {rule \in {"KeepLast", "KeepDays", "MaxSizeMB"} : Only(rule, retention)[rule] > 0}

MatchingFiles ==
    {f \in Range(input.files) :
        LET p == parseFilename(f.Name) IN p.ok /\ ToLower(p.name) = ToLower(input.dbName)}

\* The time embedded in a file's name.
Stamp(f) == parseFilename(f.Name).timestamp

ReturnedFiles == Range(output.files)

\* C13: with only KeepLast = k enabled and p pending backups, Apply keeps
\* max(0, k - p) matching files (all of them if there are no more), no kept
\* file is older than a returned one, every file returned is a matching file,
\* and nothing is returned when at most max(0, k - p) files match.
C13_KeepLastLessPending ==
    output.op = "Apply" /\ Enabled(input.retention) = {"KeepLast"} =>
        LET k == input.retention.KeepLast
            p == input.pendingBackups
            keep == IF k - p > 0 THEN k - p ELSE 0
            kept == MatchingFiles \ ReturnedFiles
        IN  /\ ReturnedFiles \subseteq MatchingFiles
            /\ Cardinality(kept) = IF Cardinality(MatchingFiles) < keep
                                   THEN Cardinality(MatchingFiles) ELSE keep
            /\ \A f \in kept, g \in ReturnedFiles : Stamp(f) >= Stamp(g)
            /\ Cardinality(MatchingFiles) <= keep => output.files = <<>>

\* Apply has returned files under KeepLast alone with a pending backup that
\* still leaves files to keep.
C13_Witness ==
    /\ output.op = "Apply"
    /\ Enabled(input.retention) = {"KeepLast"}
    /\ input.pendingBackups > 0
    /\ input.retention.KeepLast > input.pendingBackups
    /\ output.files # <<>>

\* C14: with only KeepDays = d enabled, Apply returns exactly the matching
\* files whose embedded time is strictly before now - d days; of backups aged
\* 0, 3, 7 and 10 days under d = 5 it returns those aged 7 and 10.
C14_KeepDaysStrictlyOlder ==
    output.op = "Apply" /\ Enabled(input.retention) = {"KeepDays"} =>
        /\ ReturnedFiles = {f \in MatchingFiles : Stamp(f) < Now - input.retention.KeepDays}
        /\ input = KeepDaysExample =>
              ReturnedFiles = {f \in Range(input.files) : f.ModTime \in {Now - 7, Now - 10}}

\* Apply has returned under KeepDays alone from a listing with a matching file
\* exactly at the cutoff and an older one.
C14_Witness ==
    /\ output.op = "Apply"
    /\ Enabled(input.retention) = {"KeepDays"}
    /\ \E f, g \in MatchingFiles :
          /\ Stamp(f) = Now - input.retention.KeepDays
          /\ f \notin ReturnedFiles
          /\ g \in ReturnedFiles

C16_NewestFirstAndRepeatable ==
    output.op = "Apply" =>
        /\ \A i, j \in 1..Len(output.files) :
              i < j => Stamp(output.files[i]) >= Stamp(output.files[j])
        /\ input = KeepLastExample => output.files[1].ModTime = Now - 3
        /\ output.calls = 2 => output.files = output.first

\* The call's listing without the files that do not parse or belong to
\* another database.
OwnFilesOnly ==
    LET own(f) == f \in MatchingFiles
    IN  SelectSeq(input.files, own)

\* C17: every file Apply returns is a file of the listing whose name parses to
\* the target database's name (up to letter case); files that do not parse and
\* files of other databases are never returned, and the listing without them
\* gives the same result.
C17_OnlyOwnFiles ==
    output.op = "Apply" =>
        /\ ReturnedFiles \subseteq MatchingFiles
        /\ ReturnedFiles =
              Apply(OwnFilesOnly, input.dbName, input.retention, input.pendingBackups)

\* Apply has returned files from a listing that also holds a file that does
\* not parse and a backup of another database.
C17_Witness ==
    /\ output.op = "Apply"
    /\ ReturnedFiles # {}
    /\ \E f, g \in Range(input.files) \ MatchingFiles :
          /\ ~parseFilename(f.Name).ok
          /\ parseFilename(g.Name).ok

\* C18: the file name backup.Run generates for a valid database name, dump
\* time, path and compression parses to ok = true with that name and that
\* time; a file name that is not of the form parses to ok = false.
C18_GeneratedNamesParseBack ==
    output.op = "parseFilename" =>
        /\ input.op = "Run" =>
              /\ output.ok
              /\ output.name = input.name
              /\ output.timestamp = input.day
        /\ input.op = "parseFilename" => ~output.ok

\* C19: filtering is case-insensitive: filterByName and Apply give the same
\* result for the target name spelled mydb and spelled MyDB.
C19_CaseInsensitive ==
    /\ output.op = "filterByName" =>
          \A n \in TargetNames : filterByName(input.files, n) = output.files
    /\ output.op = "Apply" =>
          \A n \in TargetNames :
              Apply(input.files, n, input.retention, input.pendingBackups) = ReturnedFiles

\* filterByName has kept a file whose name spells the database as the target
\* name does and one whose name spells it in another case.
C19_Witness ==
    /\ output.op = "filterByName"
    /\ \E i, j \in 1..Len(output.files) :
          /\ parseFilename(output.files[i].Name).name # input.dbName
          /\ parseFilename(output.files[j].Name).name = input.dbName

\* The names of a set of files.
Names(S) == {f.Name : f \in S}

\* The listing with other storage modification times: all equal, or reversed.
SameModTime(files) == [i \in 1..Len(files) |-> [files[i] EXCEPT !.ModTime = 1]]

ReversedModTime(files) ==
    [i \in 1..Len(files) |-> [files[i] EXCEPT !.ModTime = Now + 1 - files[i].ModTime]]

\* Apply's result for another listing of the call, by file name.
ApplyTo(files) ==
    Names(Apply(files, input.dbName, input.retention, input.pendingBackups))

ModTimeIgnored ==
    output.op = "Apply" =>
        /\ ApplyTo(SameModTime(input.files)) = Names(ReturnedFiles)
        /\ ApplyTo(ReversedModTime(input.files)) = Names(ReturnedFiles)

ListingOrderIgnored ==
    output.op = "Apply" =>
        \A q \in Orderings(Range(input.files)) : ApplyTo(q) = Names(ReturnedFiles)

FilteredNewestFirst ==
    output.op = "filterByName" =>
        \A i, j \in 1..Len(output.files) :
            i < j => Stamp(output.files[i]) >= Stamp(output.files[j])

\* C20: retention decisions depend only on each file's parsed name, embedded
\* time and size: Apply returns the same files for listings that differ only in
\* the storage modification times or in the order of the files, and the
\* filtered list is sorted newest first by embedded time.
C20_OnlyNameStampAndSize ==
    /\ ModTimeIgnored
    /\ ListingOrderIgnored
    /\ FilteredNewestFirst

\* The extension of a file name is the one of the codec: the reader that
\* newDecompressReader selects for the name is the one of this codec.
CodecExtension(name, compression) ==
    IF compressionExt(compression) = <<>>
    THEN \A ext \in {"gz", "zst", "xz", "zip"} : ~HasSuffix(name, ext)
    ELSE HasSuffix(name, compressionExt(compression)[2])

\* The finalized output of the writer of a codec for the given bytes, written
\* in chunks of at most BufSize.
RECURSIVE Encoded(_, _, _)
Encoded(writer, out, data) ==
    IF data = <<>>
    THEN IF writer.cleanup THEN WriterClose(writer) ELSE out
    ELSE LET n == IF Len(data) < BufSize THEN Len(data) ELSE BufSize
             w == WriterWrite(writer, out, SubSeq(data, 1, n))
         IN  Encoded(w.writer, w.out, SubSeq(data, n + 1, Len(data)))

C22_FileRoundTrip ==
    (/\ job.op = "Run"
     /\ job.db.Type = "file"
     /\ rst.pc = "done"
     /\ rst.err # "creating destination file")
        => /\ rst.err = NoError
           /\ rst.dst = RawFile(job.content)

\* The places of an event in the trace of backup.Run.
Places(event) == {i \in 1..Len(run.trace) : run.trace[i] = event}

\* C23: on every path of dumpFile and runDumpCommand on which newCompressWriter
\* returned an encoder with a cleanup function, success and error alike, the
\* cleanup is invoked exactly once, after the last byte was written and before
\* the output file is closed: once the function has returned, the trace has
\* one finalize, every write before it and the close of the file after it;
\* and until then never more than one finalize and none after the close.
C23_FinalizeOnceBeforeClose ==
    (run.pc # "none" /\ run.writer.cleanup)
        => /\ Cardinality(Places("finalize")) <= 1
           /\ \A f \in Places("finalize") :
                 /\ \A w \in Places("write") : w < f
                 /\ \A c \in Places("close") : f < c
           /\ Places("close") # {} => Places("finalize") # {}
           /\ run.pc = "returned" =>
                 /\ Cardinality(Places("finalize")) = 1
                 /\ Cardinality(Places("close")) = 1

\* A gzip dump failed in io.Copy after a first chunk was written, and the
\* function has returned.
C23_Witness ==
    /\ run.pc = "returned"
    /\ run.writer.cleanup
    /\ run.err # NoError
    /\ Places("write") # {}
    /\ Places("finalize") # {}

\* C24: a .zip artifact with no entries makes the decoder return an explicit
\* error, and nothing is fed to the restore target: the destination file is
\* neither created nor changed and no restore command is run.  For an artifact
\* with exactly one entry the reader yields that entry's bytes: they are what
\* the destination file holds, or what the restore command was fed.
C24_ZipEntries ==
    (/\ job.op = "Restore"
     /\ job.db.Type \in {"file", "mysql"}
     /\ rst.file.format = "zip"
     /\ HasSuffix(rst.path, "zip"))
        => /\ rst.file.entries = 0 =>
                 /\ rst.pc \notin {"createDst", "runCmd"}
                 /\ ~rst.invoked
                 /\ ~rst.created
                 /\ rst.dst = RawFile(job.content)
                 /\ rst.pc \in {"done", "exit"} => rst.err = "zip file is empty"
           /\ rst.file.entries = 1 =>
                 /\ rst.pc \in {"createDst", "runCmd"} =>
                       newDecompressReader(rst.path, rst.file)
                           = Reader(NoError, NoError, RawFile(rst.file.data))
                 /\ rst.invoked =>
                       IF job.db.Type = "file" THEN rst.dst = RawFile(rst.file.data)
                       ELSE rst.fed = RawFile(rst.file.data)

\* The restore of a MySQL database from a zip archive without entries has
\* ended.
C24_Witness ==
    /\ job.op = "Restore"
    /\ job.db.Type = "mysql"
    /\ rst.file = File("zip", <<>>, 0)
    /\ rst.pc = "done"
    /\ rst.err = "zip file is empty"

\* C25: a restore from a remote destination (CLI runRestore and TUI
\* startRestore) calls the database restore only after the download has
\* succeeded; a failed download ends the operation with an error and without
\* any restore step; a restore from a local file never calls the download
\* and goes straight to the restore.
C25_RestoreAfterDownload ==
    job.op = "Restore"
        => /\ job.local => rst.calls \in {<<>>, <<"Restore">>}
           /\ job.local /\ job.frontend = "tui" /\ rst.pc # "begin" => rst.calls = <<"Restore">>
           /\ ~job.local => rst.calls \in {<<>>, <<"Download">>, <<"DownloadFailed">>,
                                           <<"Download", "Restore">>}
           /\ rst.calls = <<"DownloadFailed">> /\ rst.pc = "exit" => rst.err # NoError
           /\ rst.calls = <<"DownloadFailed">> => ~rst.invoked /\ ~rst.created

\* A restore in the TUI from a remote destination has downloaded the backup,
\* restored it and ended.
C25_Witness ==
    /\ job.op = "Restore"
    /\ job.frontend = "tui"
    /\ ~job.local
    /\ rst.calls = <<"Download", "Restore">>
    /\ rst.invoked
    /\ rst.pc = "exit"

\* The last call a restore has made.
LastCall == IF rst.calls = <<>> THEN "none" ELSE rst.calls[Len(rst.calls)]

\* C30: for a compression name that is not known newCompressWriter returns an
\* error and no writer, and the dump writes nothing; for a database kind that
\* is not known backup.Run and backup.Restore return "unknown database type"
\* without a dump or restore collaborator having been invoked: no connection
\* test, no output file, no command, no reader, no destination file.
C30_UnknownCodecAndKind ==
    /\ \A c \in Compressions \ {"none", "gz", "zstd", "xz", "zip"} :
          /\ newCompressWriter(c).err = "unknown compression type"
          /\ newCompressWriter(c).writer = NoWriter
    /\ (job.op = "Run" /\ run.pc \notin {"start", "open", "testConnection", "create", "newWriter"}
        /\ run.trace # <<>>
        /\ job.db.Compression \notin {"none", "gz", "zstd", "xz", "zip"})
          => /\ run.err = "unknown compression type"
             /\ run.writer = NoWriter
             /\ run.out = RawFile(<<>>)
             /\ Places("write") = {}
    /\ (job.op = "Run" /\ job.db.Type \notin {"file", "mysql", "postgres"} /\ run.pc # "start")
          => /\ run.pc = "returned"
             /\ run.err = "unknown database type"
             /\ run.trace = <<>>
             /\ rst.pc = "none"
    /\ (job.op = "Restore" /\ job.db.Type \notin {"file", "mysql", "postgres"})
          => /\ rst.pc \notin {"openReader", "createDst", "runCmd"}
             /\ ~rst.invoked
             /\ ~rst.created
             /\ rst.dst = RawFile(job.content)
             /\ LastCall = "Restore" /\ rst.pc \in {"done", "exit"}
                   => rst.err = "unknown database type"

\* backup.Restore has returned for a database of a kind that is not known,
\* with a valid artifact.
C30_Witness ==
    /\ job.op = "Restore"
    /\ job.db.Type = "mongodb"
    /\ rst.file = File("gz", <<"a", "b">>, 0)
    /\ LastCall = "Restore"
    /\ rst.pc = "done"
    /\ rst.err = "unknown database type"

\* C26 (refuted): every failed dump, upload, list or delete call of a
\* pipeline of RunBackups produces a ProgressEvent that carries the error and
\* the pipeline ends in Done(error); no error is swallowed.  Once a pipeline
\* has returned with one of its collaborator calls failed, the last event it
\* sent is a Done event with an error.
C26_NoErrorSwallowed ==
    \A db \in DBNames :
        (/\ frontend = "cli"
         /\ pc[db] = "returned"
         /\ \E i \in 1..Len(calls[db]) : ~calls[db][i].ok)
            => /\ sent[db] # <<>>
               /\ sent[db][Len(sent[db])].Done
               /\ sent[db][Len(sent[db])].Error # NoError

\* C27: a backup request that names a database which is not configured is
\* rejected with an error before any pipeline starts, also when the same
\* request names configured databases: no goroutine is launched, no event is
\* sent, and no dump, List, Upload or Delete is called for any database.
C27_UnknownNameRejected ==
    (/\ frontend = "cli"
     /\ \E i \in 1..Len(args) : args[i] \notin DBNames
     /\ mainPc # "validate")
        => /\ mainPc = "exit"
           /\ cmdErr = "not found in config"
           /\ bgPc = "idle"
           /\ preLists = 0
           /\ failed = -1
           /\ \A n \in DBNames :
                 /\ pc[n] = "idle"
                 /\ calls[n] = <<>>
                 /\ sent[n] = <<>>
                 /\ ~tmpExists[n]
           /\ \E k \in {0, MaxOld} : remote = OldBackups(k)

\* The request "mydb ghost", a configured name first, has been rejected.
C27_Witness ==
    /\ frontend = "cli"
    /\ args = <<"mydb", UnknownName>>
    /\ mainPc = "exit"
    /\ cmdErr = "not found in config"

\* The error a pipeline's result must carry, from its collaborator calls.
ErrorOf(db) ==
    IF \E i \in CallsOf(db, "Run") : ~calls[db][i].ok THEN "dump failed"
    ELSE IF \E i \in CallsOf(db, "Upload") : ~calls[db][i].ok THEN "upload failed"
    ELSE IF \E i \in CallsOf(db, "List") : ~calls[db][i].ok THEN "list failed"
    ELSE NoError

WithErrorEvent ==
    {n \in Range(databases) : \E i \in 1..Len(received[n]) : received[n][i].Error # NoError}

\* C29: in the final summary succeeded + failed is the number of databases of
\* the run, with succeeded = len(databases) - failed not negative, and a
\* database is counted as failed exactly when at least one event with an
\* error was received for it, however the events of the databases were
\* interleaved on the channel; by then every event sent has been received.
C29_SummaryCounts ==
    (frontend = "cli" /\ mainPc = "exit" /\ cmdErr = NoError)
        => /\ failed = Cardinality(WithErrorEvent)
           /\ failed >= 0
           /\ Len(databases) - failed >= 0
           /\ \A n \in Range(databases) :
                 /\ states[n].hasError <=> n \in WithErrorEvent
                 /\ received[n] = sent[n]

\* A run of two databases has ended with one failed and one succeeded; more
\* events were received for the one that succeeded.
C29_Witness ==
    /\ frontend = "cli"
    /\ mainPc = "exit"
    /\ Len(databases) = 2
    /\ failed = 1
    /\ \E n \in Range(databases) :
          /\ n \in WithErrorEvent
          /\ \E m \in Range(databases) \ {n} : Len(received[m]) > Len(received[n])

\* C32 (refuted): in every BackupResult RunBackups returns, Success is false
\* exactly when Error is set; a pipeline in which a step failed, the listing
\* of the retention step included, never reports Success = true.
C32_SuccessIffNoError ==
    (frontend = "cli" /\ bgPc \in {"returned", "closedProgress", "finished"})
        => \A i \in 1..Len(databases) :
              LET result == results[databases[i]]
              IN  /\ result.Success <=> result.Error = NoError
                  /\ (\E c \in 1..Len(calls[databases[i]]) :
                         /\ calls[databases[i]][c].op \in {"Run", "Upload", "List"}
                         /\ ~calls[databases[i]][c].ok)
                        => ~result.Success

\* The events of a pipeline that have Done set.
DoneEvents(db) == {i \in 1..Len(sent[db]) : sent[db][i].Done}

\* C35: every backup pipeline emits exactly one ProgressEvent with Done set
\* and it is the last event the pipeline emits, on every path (dump failure,
\* upload failure, failure of the retention listing, retention skipped,
\* nothing to delete, deletions): a running pipeline has sent no Done event,
\* a returned one has sent exactly one, as its last event.
C35_OneDoneEventLast ==
    frontend = "cli"
        => \A db \in DBNames :
              /\ pc[db] # "returned" => DoneEvents(db) = {}
              /\ pc[db] = "returned" => DoneEvents(db) = {Len(sent[db])} /\ sent[db] # <<>>

\* A pipeline has returned after a failed listing in its retention step.
C35_Witness ==
    /\ frontend = "cli"
    /\ \E db \in DBNames :
          /\ pc[db] = "returned"
          /\ \E i \in CallsOf(db, "List") : ~calls[db][i].ok
          /\ DoneEvents(db) = {Len(sent[db])}

\* C38 (refuted): whenever backup.Run returns an error, whatever the reason
\* (dump failure, unknown compression, unknown database kind, stat failure),
\* the temp directory the call created no longer exists when it returns.
C38_TempDirRemovedOnError ==
    (job.op = "Run" /\ run.pc = "returned" /\ run.err # NoError) => ~run.tmpExists

\* C39: in the TUI without DryRun, a database whose backup ended in an error
\* after its dump had succeeded no longer has its artifact on disk (and so no
\* state.result naming it) once it is marked done.
C39_TuiErrorCleansArtifact ==
    \A db \in DBNames :
        /\ frontend = "tui"
        /\ ~dryRun
        /\ states[db].done
        /\ states[db].hasError
        /\ RunSucceeded(db)
        => ~tmpExists[db]


\* C40: in the TUI at most one restore is in progress: the restore step is
\* other than idle exactly while a restore that was started has not ended, a
\* startRestore submitted meanwhile changes nothing of the restore (no second
\* Download, no second Restore), and the step is idle again once the restore
\* has ended, with success or with an error at either step.
C40_OneRestoreInProgress ==
    job.op = "Restore" /\ job.frontend = "tui"
        => /\ rst.restoreStep = "idle" <=> rst.pc \in {"begin", "exit"}
           /\ rst.restoreStep = "downloading" <=> rst.pc \in {"downloading", "downloadProgressMsg",
                                                               "restoreStepDoneMsg"}
           /\ Cardinality({i \in 1..Len(rst.calls) :
                              rst.calls[i] \in {"Download", "DownloadFailed"}}) <= 1
           /\ Cardinality({i \in 1..Len(rst.calls) : rst.calls[i] = "Restore"}) <= 1
           /\ job.local => rst.calls \in {<<>>, <<"Restore">>}

\* A remote restore that was submitted again while it was in progress and has
\* ended after its one download and its one restore.
C40_Witness ==
    /\ job.op = "Restore"
    /\ job.frontend = "tui"
    /\ ~job.local
    /\ rst.presses > 1
    /\ rst.pc = "exit"
    /\ rst.restoreStep = "idle"
    /\ rst.calls = <<"Download", "Restore">>

\* The Delete calls of a pipeline, in the order they were made.
DeleteCalls(db) ==
    LET isDelete(c) == c.op = "Delete"
    IN  SelectSeq(calls[db], isDelete)

\* The deletion set of a pipeline's Retention step: the plan entry in the
\* TUI; in the CLI what Apply gives for the listing after the upload, which
\* is the destination with the files the step has deleted since put back.
DeletionSet(db) ==
    IF frontend = "tui" THEN retentionPlan[db]
    ELSE LET dels == DeleteCalls(db)
             gone == {dels[i].file : i \in {j \in 1..Len(dels) : dels[j].ok}}
         IN  ApplyFirstRule(List(remote \cup gone), db, Retention(db))

\* C36: in the Retention step Delete is attempted once for every file of the
\* deletion set, in its order, whether or not an earlier Delete failed; the
\* count the step reports is the number of Delete calls that succeeded; and
\* the step ends with the Done event (in the TUI with the database done).
C36_DeleteLoopGoesOn ==
    \A db \in DBNames :
        LET dels == DeleteCalls(db)
            succeeded == Cardinality({i \in 1..Len(dels) : dels[i].ok})
        IN  Len(dels) > 0
            => /\ [i \in 1..Len(dels) |-> dels[i].file] \o toDelete[db] = DeletionSet(db)
               /\ deleted[db] = succeeded
               /\ Returned(db)
                  => /\ toDelete[db] = <<>>
                     /\ Last(sent[db]).Step = "retention"
                     /\ Last(sent[db]).n = succeeded
                     /\ Last(sent[db]).Error = NoError
                     /\ frontend = "cli" => Last(sent[db]).Done
                     /\ frontend = "tui" => states[db].done

\* A CLI pipeline returned after a Retention step whose first Delete failed
\* and whose second Delete succeeded.
C36_Witness ==
    \E db \in DBNames :
        /\ frontend = "cli"
        /\ Returned(db)
        /\ Len(DeleteCalls(db)) > 1
        /\ ~DeleteCalls(db)[1].ok
        /\ DeleteCalls(db)[Len(DeleteCalls(db))].ok
        /\ Last(sent[db]).Done

\* The Delete calls of the database's pipeline.
RetDeletes == {i \in 1..Len(ret.calls) : ret.calls[i].op = "Delete"}

\* The pipeline's upload has succeeded.
RetUploaded == \E i \in 1..Len(ret.calls) : ret.calls[i].op = "Upload" /\ ret.calls[i].ok

\* C31: the artifact a pipeline has just uploaded is not among the files its
\* Retention step deletes, whatever the rule set, the artifact's size and the
\* backups the destination held, and it is at the destination when the
\* pipeline has returned: the database is not left without a backup.
C31_NewArtifactKept ==
    job.op = "Retention" /\ RetUploaded
        => /\ \A i \in RetDeletes : ret.calls[i].file.Name # Uploaded(job.name).Name
           /\ ret.pc = "returned" => Present(ret.remote, Uploaded(job.name))

\* C34: the pipeline of a database never deletes a backup made for the peer
\* database with which it shares the destination, whatever the two names.
C34_PeerBackupsKept ==
    job.op = "Retention"
        => \A i \in RetDeletes : parseFilename(ret.calls[i].file.Name).name # job.peer

\* C33: when the destination has changed by nothing but the new artifact, the
\* files held beforehand that the pre-check marked (pendingBackups = 1) are
\* the files held beforehand that Apply marks after the upload
\* (pendingBackups = 0, the listing with the new artifact in it).
C33_PreCheckMatchesPostUpload ==
    /\ job.op = "Retention"
    /\ job.frontend = "tui"
    /\ job.name \in ret.listed
    /\ ret.pc = "retention"
    /\ ret.remote = job.old \cup {Uploaded(job.name)}
    => LET planned == IF job.name \in DOMAIN ret.plan THEN Range(ret.plan[job.name]) ELSE {}
       IN  planned \cap job.old
             = Apply(List(ret.remote), job.name, job.retention, 0) \cap job.old

\* C37: PreCheckRetention only reads and returns no error: when it has
\* returned, List is the only call made, once for each database with a rule,
\* and the destination is as it was; the plan has an entry exactly for the
\* databases that have a rule, whose listing succeeded and for which Apply
\* marked files, and each entry is that non-empty list, whichever other
\* listings failed.
C37_PreCheckOnlyReads ==
    job.op = "Retention" /\ job.frontend = "cli" /\ ret.pc # "precheck"
        => LET expected(n) == ApplyFirstRule(List(job.old), n, RetentionOf(n))
               lists == SubSeq(ret.calls, 1, Len(Ruled))
           IN  /\ DOMAIN ret.plan = {n \in ret.listed : Len(expected(n)) > 0}
               /\ \A n \in DOMAIN ret.plan : ret.plan[n] = expected(n) /\ Len(ret.plan[n]) > 0
               /\ ret.listed \subseteq Range(Ruled)
               /\ \A i \in 1..Len(Ruled) : lists[i] = Call("List", Ruled[i] \in ret.listed, NoFile)
               /\ ret.pc = "upload"
                  => /\ ret.calls = lists
                     /\ ret.err = NoError
                     /\ ret.remote \ {Uploaded(job.peer)} = job.old

\* A pre-check of two databases with rules has returned: the listing for the
\* peer failed and the peer has no entry, the database has its entry.
C37_Witness ==
    /\ job.op = "Retention"
    /\ job.frontend = "cli"
    /\ ret.pc = "upload"
    /\ Len(Ruled) > 1
    /\ ret.listed = {job.name}
    /\ DOMAIN ret.plan = {job.name}
    /\ ToLower(job.name) # ToLower(job.peer)

====
